---- MODULE Spec2Model ----
(***************************************************************************)
(* A model of the cluster sharding runtime of packages/cluster:            *)
(*   - internal/sharding.ts          the per-pod Sharding runtime and the  *)
(*                                   local ShardManager client             *)
(*   - internal/entityManager-old.ts the Replier-based EntityManager       *)
(*   - the shard hash (hashString / hashOptimize / getShardId)             *)
(***************************************************************************)
EXTENDS Integers, Sequences, FiniteSets, TLC

(***************************************************************************)
(* Bounds of the model.                                                    *)
(***************************************************************************)
\* longest entityId (in UTF-16 code units) the hash is checked on
MaxLen == 4
\* largest numberOfShards the hash is checked with
MaxShards == 4
\* config.numberOfShards of the modelled pod
NumberOfShards == 2
\* entity managers created by registerEntity in one run
MaxManagers == 1
\* records MailboxStorage holds in one run
MaxMessages == 1
\* last instant of the clock
MaxTime == 1
\* calls of EntityManager.send in one run of the entity manager
MaxSends == 2
\* calls of Replier.complete in progress at once
MaxReplies == 2
\* the largest config.entityMaxIdleTime (options.maxIdleTime), in clock instants
MaxIdleTime == 1
\* entity states one run of the entity manager creates
MaxInstances == 1
\* pods that register with the ShardManager
\* the most entity instances the manager creates when get-or-create is followed
\* step by step
MaxFineInstances == 2
MaxPods == 3
\* the most managers registerEntity makes in the pod that shuts down step by step
MaxShutdownManagers == 2
\* ShardManager.Config.numberOfShards of the ShardManager runs
ManagerShards == 4

\* sharding.ts: the seed of hashString
HashSeed == 5381

(***************************************************************************)
(* 32-bit words.  TLC's integers are 32-bit signed, so a JavaScript int32  *)
(* bit pattern is kept as two 16-bit halves [hi, lo].                      *)
(***************************************************************************)
RECURSIVE BitXor(_, _)
BitXor(a, b) ==
    IF a = 0 THEN b
    ELSE IF b = 0 THEN a
    ELSE (((a % 2) + (b % 2)) % 2) + 2 * BitXor(a \div 2, b \div 2)

RECURSIVE BitAnd(_, _)
BitAnd(a, b) ==
    IF a = 0 \/ b = 0 THEN 0
    ELSE ((a % 2) * (b % 2)) + 2 * BitAnd(a \div 2, b \div 2)

RECURSIVE BitOr(_, _)
BitOr(a, b) ==
    IF a = 0 THEN b
    ELSE IF b = 0 THEN a
    ELSE (IF a % 2 = 1 \/ b % 2 = 1 THEN 1 ELSE 0) + 2 * BitOr(a \div 2, b \div 2)

\* the int32 bit pattern of a small non-negative number
Word(n) == [hi |-> n \div 65536, lo |-> n % 65536]

\* ToInt32: the signed value of a bit pattern
ToInt32(w) ==
    IF w.hi >= 32768
    THEN -(((65535 - w.hi) * 65536) + (65536 - w.lo))
    ELSE (w.hi * 65536) + w.lo

\* (h * 33) reduced to 32 bits, as the ^ operator's ToInt32 reduces it
Mul33(w) ==
    LET lo33 == w.lo * 33
        hi33 == (w.hi * 33) + (lo33 \div 65536)
    IN  [hi |-> hi33 % 65536, lo |-> lo33 % 65536]

\* w ^ code, for a UTF-16 code unit (0..65535)
XorCode(w, code) == [hi |-> w.hi, lo |-> BitXor(w.lo, code)]

\* sharding.ts: hashOptimize, on the bit pattern of n
\*   (n & 0xbfffffff) | ((n >>> 1) & 0x40000000)
hashOptimizeWord(w) ==
    LET masked  == [hi |-> BitAnd(w.hi, 49151), lo |-> BitAnd(w.lo, 65535)]
        shifted == [hi |-> w.hi \div 2, lo |-> ((w.hi % 2) * 32768) + (w.lo \div 2)]
        bit30   == [hi |-> BitAnd(shifted.hi, 16384), lo |-> BitAnd(shifted.lo, 0)]
    IN  [hi |-> BitOr(masked.hi, bit30.hi), lo |-> BitOr(masked.lo, bit30.lo)]

\* the loop of hashString: i counts down from str.length, h = (h * 33) ^ str[--i]
RECURSIVE hashLoop(_, _, _)
hashLoop(str, i, h) ==
    IF i = 0 THEN h
    ELSE hashLoop(str, i - 1, XorCode(Mul33(h), str[i]))

\* a bug hashString could have: the code units folded front to back
RECURSIVE hashLoopForward(_, _, _)
hashLoopForward(str, i, h) ==
    IF i > Len(str) THEN h
    ELSE hashLoopForward(str, i + 1, XorCode(Mul33(h), str[i]))

\* a bug hashString could have: two digits of the seed transposed
hashStringSeed(str) == ToInt32(hashOptimizeWord(hashLoop(str, Len(str), Word(5831))))

hashStringForward(str) == ToInt32(hashOptimizeWord(hashLoopForward(str, 1, Word(HashSeed))))

\* sharding.ts: hashString (a JavaScript number holding an int32)
hashString(str) == ToInt32(hashOptimizeWord(hashLoop(str, Len(str), Word(HashSeed))))

\* JavaScript's % : the remainder takes the sign of the dividend
JsRem(a, n) == IF a >= 0 THEN a % n ELSE -((-a) % n)

Abs(a) == IF a < 0 THEN -a ELSE a

\* sharding.ts: getShardId, with config.numberOfShards made a parameter
getShardId(entityId, numberOfShards) ==
    Abs(JsRem(hashString(entityId), numberOfShards))

(***************************************************************************)
(* Values.                                                                 *)
(***************************************************************************)
\* effect/Option
None == [tag |-> "None"]
Some(v) == [tag |-> "Some", value |-> v]

\* effect/HashMap.get on a map kept as a function
HashMapGet(map, key) == IF key \in DOMAIN map THEN Some(map[key]) ELSE None

\* effect/HashMap.set and HashMap.remove
HashMapSet(map, key, value) ==
    [k \in (DOMAIN map) \cup {key} |-> IF k = key THEN value ELSE map[k]]

HashMapRemove(map, key) == [k \in (DOMAIN map) \ {key} |-> map[k]]

EmptyMap == [k \in {} |-> None]

\* PodAddress.make({ host: config.host, port: config.port }): the local pod
LocalPod == [host |-> "A", port |-> 8080]
\* a peer pod: same host, another port
PeerPod == [host |-> "A", port |-> 8081]
Pods == {LocalPod, PeerPod}

\* EntityType is a branded string; the brand keeps it apart from other values
EntityType(name) == [EntityType |-> name]
RegisteredTypes == {"Counter"}
EntityTypes == {"Counter"}

\* entity ids, as sequences of UTF-16 code units: "c" and "b"
EntityIds == {<<99>>, <<98>>}

\* messages: the entity protocol accepts IncrementCounter only
Protocol == {"IncrementCounter"}
Messages == Protocol \cup {"Invalid"}

ShardIds == 0 .. (NumberOfShards - 1)

\* EntityAddress: new EntityAddress({ shardId, entityId, entityType })
EntityAddress(shardId, entityId, entityType) ==
    [shardId |-> shardId, entityId |-> entityId, entityType |-> EntityType(entityType)]

\* sharding.ts: getShardId(entityId) of the pod, config.numberOfShards fixed;
\* the ids in use are hashed once
PodShardIds == [id \in EntityIds |-> getShardId(id, NumberOfShards)]
podShardId(entityId) == PodShardIds[entityId]

\* the addresses the operations are called with: the shardId of the hash
Addresses ==
    {EntityAddress(podShardId(id), id, t) : id \in EntityIds, t \in EntityTypes}

\* the address of an Envelope.Encoded as the caller hands it over: in its
\* encoded form (what Envelope.serialize gives), or an EntityAddress instance
AddressForms == {"encoded", "instance"}

\* Envelope.Encoded
Envelopes == [address : Addresses, message : Messages, form : AddressForms]

\* ShardingException tags and the other outcomes of a call
Ok == "ok"
EntityNotManagedByPod == "EntityNotManagedByPod"
MalformedMessage == "MalformedMessage"
PodUnavailable == "PodUnavailable"
\* the call never returns: its retry loop does not end
NoReturn == "NoReturn"
\* the call throws: the effect dies with a defect, none of its declared errors
Defect == "Defect"

(***************************************************************************)
(* State.                                                                  *)
(***************************************************************************)
VARIABLES
    hEntityId,        \* hash specification: the entityId hashed
    hShards,          \* hash specification: config.numberOfShards
    hShardId,         \* hash specification: Some(getShardId(...)) once computed
    clientKind,       \* "local" (layerClientLocal) or "remote" ShardManager client
    podRegistered,    \* shardManager.register(address) was called, unregister not since
    isShutdown,       \* sharding.ts: isShutdown
    shardAssignments, \* sharding.ts: shardAssignments, ShardId -> PodAddress
    entityManagers,   \* sharding.ts: entityManagers, EntityType -> manager
    events,           \* sharding.ts: events (EntityRegistered published)
    managers,         \* every EntityManager made: scope, entities, lastActiveTimes
    storage,          \* MailboxStorage: the saved records
    now,              \* Clock.currentTimeMillis
    lastOp,           \* the operation that just ran: its input, result and outgoing
                      \* calls, until its caller has taken the result (then Idle)
    managerScope,     \* entityManager-old.ts: managerScope, "open" or "closed"
    entities,         \* entityManager-old.ts: entities, EntityAddress -> entity instance
    instances,        \* every EntityState created: scope, mailbox, behaviour, expiration
    lastActiveTimes,  \* entityManager-old.ts: lastActiveTimes, EntityAddress -> millis
    sends,            \* the calls of EntityManager.send, each at its own step
    replies,          \* the calls of Replier.complete that have read the clock
                      \* and not yet written lastActiveTimes
    terminations,     \* the terminateEntity fibers forked and not yet ended
    maxIdleTime,      \* options.maxIdleTime ?? config.entityMaxIdleTime, in clock
                      \* instants
    smPods,           \* ShardManager: the registered pods
    smAssignments,    \* ShardManager: the assignment map, ShardId -> Option<PodAddress>
    smRate,           \* ShardManager.Config.rebalanceRate, <<numerator, denominator>>
    smPass,           \* ShardManager: the rebalance pass under way, or NoPass
    unreg             \* sharding.ts: the unregister (pod shutdown) under way: its
                      \* step, the manager scopes still to close, what it has done

hashVars == <<hEntityId, hShards, hShardId>>
podVars == <<clientKind, podRegistered, isShutdown, shardAssignments, entityManagers,
             events, managers, storage, now, lastOp>>
smVars == <<smPods, smAssignments, smRate, smPass>>
emVars == <<managerScope, entities, instances, lastActiveTimes, sends, replies,
            terminations>>
vars == <<hEntityId, hShards, hShardId, clientKind, podRegistered, isShutdown,
          shardAssignments, entityManagers, events, managers, storage, now, lastOp,
          managerScope, entities, instances, lastActiveTimes, sends, replies,
          terminations, maxIdleTime, smPods,
          smAssignments, smRate, smPass, unreg>>

(***************************************************************************)
(* MailboxStorage (MailboxStorage.ts declares it; its engine is external). *)
(***************************************************************************)
SaveOutcomes == {"saved", "NoSuchElementException", "MessagePersistenceError"}

\* the next sequence number of an entity: dense per (entityType, entityId)
SequenceNumber(store, address) ==
    Cardinality({i \in DOMAIN store :
                    /\ store[i].entry.entityType = address.entityType
                    /\ store[i].entry.entityId = address.entityId}) + 1

\* MailboxStorage.Entry of a message saved now
Entry(store, address, message) ==
    [shardId |-> address.shardId, entityId |-> address.entityId,
     entityType |-> address.entityType, message |-> message,
     sequenceNumber |-> SequenceNumber(store, address)]

\* saveMessage: the store with the record appended, Pending
saveMessage(store, address, message) ==
    Append(store, [entry |-> Entry(store, address, message), state |-> "Pending"])

\* updateMessage(address, message, Processed): by address and primary key
updateMessage(store, address, message) ==
    [i \in DOMAIN store |->
        IF /\ store[i].entry.entityType = address.entityType
           /\ store[i].entry.entityId = address.entityId
           /\ store[i].entry.message = message
        THEN [store[i] EXCEPT !.state = "Processed"]
        ELSE store[i]]

(***************************************************************************)
(* Calls an operation makes on its collaborators.                          *)
(***************************************************************************)
Call(fn, pod, envelope) == [fn |-> fn, pod |-> pod, envelope |-> envelope]

(***************************************************************************)
(* EntityManager (entityManager-old.ts, the Replier-based manager).        *)
(* A manager is [type, scope, entities, lastActiveTimes]; an entity is     *)
(* [mailbox, open], open = its scope is open and its mailbox not shut down.*)
(***************************************************************************)
NewManager(type) ==
    [type |-> type, scope |-> "open", entities |-> EmptyMap, lastActiveTimes |-> EmptyMap]

\* getOrCreateState: the state of the address, created when absent.  A scope
\* forked from a closed manager scope is closed: its finalizers (the mailbox
\* shutdown, the removal from the map) run as they are added, before the insert.
getOrCreateState(mgr, address, shutdown) ==
    IF address \in DOMAIN mgr.entities
    THEN [result |-> Ok, mgr |-> mgr]
    ELSE IF shutdown
    THEN [result |-> EntityNotManagedByPod, mgr |-> mgr]
    ELSE [result |-> Ok,
          mgr |-> [mgr EXCEPT !.entities =
                      HashMapSet(mgr.entities, address,
                                 [mailbox |-> <<>>, open |-> mgr.scope = "open"])]]

\* sendMessageToEntity: resolve the state and offer the entry; a failed offer
\* (mailbox shut down) is retried against the state resolved again
sendMessageToEntity(mgr, address, entry, shutdown) ==
    LET got == getOrCreateState(mgr, address, shutdown)
    IN  IF got.result # Ok
        THEN [result |-> got.result, mgr |-> got.mgr]
        ELSE IF got.mgr.entities[address].open
        THEN [result |-> Ok,
              mgr |-> [got.mgr EXCEPT !.entities[address].mailbox = Append(@, entry)]]
        ELSE [result |-> NoReturn, mgr |-> got.mgr]

\* EntityManager.send of manager m: decode, save, deliver
send(m, envelope, saveOutcome) ==
    IF envelope.message \notin Protocol
    THEN [result |-> MalformedMessage, managers |-> managers, storage |-> storage,
          calls |-> <<>>]
    ELSE IF saveOutcome # "saved"
    THEN [result |-> Ok, managers |-> managers, storage |-> storage,
          calls |-> <<Call("MailboxStorage.saveMessage", None, Some(envelope))>>]
    ELSE LET sent == sendMessageToEntity(managers[m], envelope.address,
                                         Entry(storage, envelope.address, envelope.message),
                                         isShutdown)
         IN  [result |-> sent.result,
              managers |-> [managers EXCEPT ![m] = sent.mgr],
              storage |-> saveMessage(storage, envelope.address, envelope.message),
              calls |-> <<Call("MailboxStorage.saveMessage", None, Some(envelope))>>]

\* Scope.close of a manager scope: every open entity scope forked from it is
\* closed, which removes the entity from the map and shuts its mailbox down;
\* an entry whose scope was closed already stays
closeManagerScope(mgr) ==
    IF mgr.scope = "closed" THEN mgr
    ELSE [mgr EXCEPT !.scope = "closed",
                     !.entities = [a \in {x \in DOMAIN @ : ~@[x].open} |-> @[a]]]

(***************************************************************************)
(* ShardManager client.                                                    *)
(***************************************************************************)
\* sharding.ts (shardManagerClient): makeLocal's shards,
\* Array.range(1, config.numberOfShards) mapped to Option.some(address)
makeLocalShards == [n \in 1 .. NumberOfShards |-> Some(LocalPod)]

\* what a remote ShardManager may answer: any ShardId -> Option<PodAddress>
RemoteAssignments == [ShardIds -> {None} \cup {Some(p) : p \in Pods}]

\* getAssignments of the client in use
getAssignments == IF clientKind = "local" THEN {makeLocalShards} ELSE RemoteAssignments

\* the assignment-refresh task: the cache keeps the pod of every assigned shard
CacheOf(assignments) ==
    [s \in {k \in DOMAIN assignments : assignments[k] # None} |-> assignments[s].value]

(***************************************************************************)
(* Sharding (sharding.ts).                                                 *)
(***************************************************************************)
PodsOutcomes == {Ok, PodUnavailable}

\* isEntityOnLocalShards: `address` is the EntityAddress parameter, which
\* shadows the pod's address
isEntityOnLocalShards(address) ==
    LET shardId == podShardId(address.entityId)
        maybeAddress == HashMapGet(shardAssignments, shardId)
    IN  maybeAddress = Some(address)

\* Schema.validateSync(EntityAddress)(envelope.address): EntityAddress is a
\* class schema, which validates its instances and throws on anything else
validates(envelope) == envelope.form = "instance"

\* sendToLocalEntityManager: the address is validated as the function is
\* called, before any effect is built; then the shard is checked and the
\* manager is looked up with the address as key
sendToLocalEntityManager(envelope, saveOutcome) ==
    LET address == envelope.address
    IN  IF ~validates(envelope)
        THEN [result |-> Defect, managers |-> managers, storage |-> storage,
              calls |-> <<>>]
        ELSE IF ~isEntityOnLocalShards(address)
        THEN [result |-> EntityNotManagedByPod, managers |-> managers,
              storage |-> storage, calls |-> <<>>]
        ELSE LET maybeState == HashMapGet(entityManagers, address)
             IN  IF maybeState = None
                 THEN [result |-> EntityNotManagedByPod, managers |-> managers,
                       storage |-> storage, calls |-> <<>>]
                 ELSE LET r == send(maybeState.value, envelope, saveOutcome)
                      IN  [r EXCEPT !.calls =
                              <<Call("EntityManager.send", None, Some(envelope))>> \o @]

\* sendToRemoteEntityManager: pods.send(pod, envelope), and nothing else
sendToRemoteEntityManager(pod, envelope, podsOutcome) ==
    [result |-> podsOutcome, managers |-> managers, storage |-> storage,
     calls |-> <<Call("Pods.send", Some(pod), Some(envelope))>>]

\* a bug sendEnvelope could have: pods told apart by their host only
sendEnvelopeByHost(pod, envelope, saveOutcome, podsOutcome) ==
    IF LocalPod.host = pod.host
    THEN sendToLocalEntityManager(envelope, saveOutcome)
    ELSE sendToRemoteEntityManager(pod, envelope, podsOutcome)

\* sendEnvelope: Equal.equals(address, pod) chooses the plane
sendEnvelope(pod, envelope, saveOutcome, podsOutcome) ==
    IF LocalPod = pod
    THEN sendToLocalEntityManager(envelope, saveOutcome)
    ELSE sendToRemoteEntityManager(pod, envelope, podsOutcome)

\* a bug sendMessage could have: a shard without a pod is sent to a default pod
sendMessageDefaultPod(entityType, entityIdentifier, message, saveOutcome, podsOutcome) ==
    LET shardId == podShardId(entityIdentifier)
        address == EntityAddress(shardId, entityIdentifier, entityType)
        maybePod == HashMapGet(shardAssignments, shardId)
        pod == IF maybePod = None THEN PeerPod ELSE maybePod.value
    IN  IF message \notin Protocol
        THEN [result |-> MalformedMessage, managers |-> managers,
              storage |-> storage, calls |-> <<>>]
        ELSE sendEnvelope(pod, [address |-> address, message |-> message, form |-> "encoded"],
                          saveOutcome, podsOutcome)

\* makeMessenger(entity).sendMessage: the pod of the shard, then the envelope
sendMessage(entityType, entityIdentifier, message, saveOutcome, podsOutcome) ==
    LET shardId == podShardId(entityIdentifier)
        address == EntityAddress(shardId, entityIdentifier, entityType)
        maybePod == HashMapGet(shardAssignments, shardId)
    IN  IF maybePod = None
        THEN [result |-> EntityNotManagedByPod, managers |-> managers,
              storage |-> storage, calls |-> <<>>]
        ELSE IF message \notin Protocol
        THEN [result |-> MalformedMessage, managers |-> managers,
              storage |-> storage, calls |-> <<>>]
        ELSE sendEnvelope(maybePod.value, [address |-> address, message |-> message, form |-> "encoded"],
                          saveOutcome, podsOutcome)

(***************************************************************************)
(* Actions of the pod.                                                     *)
(***************************************************************************)
Op(op, pod, envelope, manager, result, calls) ==
    [op |-> op, pod |-> pod, envelope |-> envelope, manager |-> manager,
     result |-> result, calls |-> calls]

\* no operation has a result waiting for its caller
Idle == Op("idle", None, None, 0, Ok, <<>>)

\* the outcome r of an operation becomes the next state
Apply(op, pod, envelope, manager, r) ==
    /\ lastOp = Idle
    /\ Len(r.storage) <= MaxMessages
    /\ managers' = r.managers
    /\ storage' = r.storage
    /\ lastOp' = Op(op, pod, envelope, manager, r.result, r.calls)

\* register: isShutdown := false, then shardManager.register(address)
Register ==
    /\ lastOp = Idle
    /\ isShutdown' = FALSE
    /\ podRegistered' = TRUE
    /\ lastOp' = Op("register", None, None, 0, Ok,
                    <<Call("ShardManager.register", Some(LocalPod), None)>>)
    /\ UNCHANGED <<hashVars, maxIdleTime, unreg, smVars, emVars, clientKind, shardAssignments, entityManagers, events,
                   managers, storage, now>>

\* registerEntity: a manager is made in a scope forked from the sharding scope,
\* recorded under entity.type, and EntityRegistered is published
RegisterEntityOf(types, limit) ==
    \E type \in types :
        /\ lastOp = Idle
        /\ Len(managers) < limit
        /\ managers' = Append(managers, NewManager(type))
        /\ entityManagers' = HashMapSet(entityManagers, EntityType(type), Len(managers) + 1)
        /\ events' = Append(events, type)
        /\ lastOp' = Op("registerEntity", None, None, Len(managers) + 1, Ok, <<>>)
        /\ UNCHANGED <<hashVars, maxIdleTime, unreg, smVars, emVars, clientKind, podRegistered, isShutdown, shardAssignments,
                       storage, now>>

\* registerEntity of the entity type of the pod
RegisterEntity == RegisterEntityOf(RegisteredTypes, MaxManagers)

\* the assignment-refresh task: the cache takes the client's assignments
RefreshAssignments ==
    \E assignments \in getAssignments :
        /\ lastOp = Idle
        /\ shardAssignments' = CacheOf(assignments)
        /\ lastOp' = Op("refreshAssignments", None, None, 0, Ok,
                        <<Call("ShardManager.getAssignments", None, None)>>)
        /\ UNCHANGED <<hashVars, maxIdleTime, unreg, smVars, emVars, clientKind, podRegistered, isShutdown, entityManagers,
                       events, managers, storage, now>>

\* Sharding.sendEnvelope(pod, envelope)
SendEnvelope ==
    \E pod \in Pods, envelope \in Envelopes :
      \E saveOutcome \in (IF pod = LocalPod THEN SaveOutcomes ELSE {"saved"}),
         podsOutcome \in (IF pod = LocalPod THEN {Ok} ELSE PodsOutcomes) :
        /\ Apply("sendEnvelope", Some(pod), Some(envelope), 0,
                 sendEnvelope(pod, envelope, saveOutcome, podsOutcome))
        /\ UNCHANGED <<hashVars, maxIdleTime, unreg, smVars, emVars, clientKind, podRegistered, isShutdown, shardAssignments,
                       entityManagers, events, now>>

\* Messenger.sendMessage(entityId, message) of the messenger of an entity type
SendMessage ==
    \E type \in EntityTypes, id \in EntityIds, message \in Messages :
      \E saveOutcome \in (IF HashMapGet(shardAssignments, podShardId(id)) = Some(LocalPod)
                           THEN SaveOutcomes ELSE {"saved"}),
         podsOutcome \in (IF HashMapGet(shardAssignments, podShardId(id)) = Some(PeerPod)
                           THEN PodsOutcomes ELSE {Ok}) :
        /\ Apply("sendMessage", None,
                 Some([address |-> EntityAddress(podShardId(id), id, type),
                       message |-> message, form |-> "encoded"]),
                 0, sendMessage(type, id, message, saveOutcome, podsOutcome))
        /\ UNCHANGED <<hashVars, maxIdleTime, unreg, smVars, emVars, clientKind, podRegistered, isShutdown, shardAssignments,
                       entityManagers, events, now>>

\* the caller of the operation that just ran takes its result
Return ==
    /\ lastOp # Idle
    /\ lastOp' = Idle
    /\ UNCHANGED <<hashVars, maxIdleTime, unreg, smVars, emVars, clientKind, podRegistered, isShutdown, shardAssignments,
                   entityManagers, events, managers, storage, now>>

\* entityManager-old.ts make: the manager scope open, no entity, no last
\* active time; no send, reply or termination under way
SendIds == 1 .. MaxSends
NoSend == [pc |-> "idle", envelope |-> None, save |-> None, entry |-> None,
           state |-> 0, result |-> None]

ManagerInit ==
    /\ managerScope = "open"
    /\ entities = EmptyMap
    /\ instances = <<>>
    /\ lastActiveTimes = EmptyMap
    /\ sends = [s \in SendIds |-> NoSend]
    /\ replies = {}
    /\ terminations = {}

\* no ShardManager runs: nothing registered, nothing assigned, no pass
NoPass == [active |-> FALSE, immediate |-> FALSE, before |-> <<>>, plan |-> <<>>,
           move |-> 0, pc |-> "idle", log |-> <<>>]
ShardManagerIdle ==
    /\ smPods = {}
    /\ smAssignments = <<>>
    /\ smRate = <<1, 1>>
    /\ smPass = NoPass

\* the hash specification is not running
HashIdle ==
    /\ hEntityId = <<>>
    /\ hShards = 1
    /\ hShardId = None

\* no unregister has started
NoUnregister == [pc |-> "idle", found |-> {}, todo |-> {}, log |-> <<>>]

\* the state make leaves: nothing registered, the cache empty
PodInit ==
    /\ unreg = NoUnregister
    /\ clientKind \in {"local", "remote"}
    /\ podRegistered = FALSE
    /\ isShutdown = FALSE
    /\ shardAssignments = EmptyMap
    /\ entityManagers = EmptyMap
    /\ events = <<>>
    /\ managers = <<>>
    /\ storage = <<>>
    /\ now = 0
    /\ lastOp = Idle

Init == HashIdle /\ PodInit /\ ManagerInit /\ maxIdleTime = MaxIdleTime /\ ShardManagerIdle

\* the managers registered under an entity type
RegisteredManagers == {entityManagers[t] : t \in DOMAIN entityManagers}

(***************************************************************************)
(* Pod shutdown step by step (sharding.ts unregister): getAssignments, then *)
(* isShutdown, the manager scopes one by one, shardManager.unregister.      *)
(***************************************************************************)
ShutdownStep(step, manager, ok) == [step |-> step, manager |-> manager, ok |-> ok]

\* Effect.forEach over the managers, each close wrapped in catchAllCause: the
\* next manager, or shardManager.unregister when none is left
afterClose(todo, ok) == IF todo = {} THEN "unregister" ELSE "close"

\* unregister starts: shardManager.getAssignments; on failure the warning is
\* logged and nothing else is done
UnregisterStart ==
    \E available \in (IF clientKind = "local" THEN {TRUE} ELSE BOOLEAN) :
        /\ unreg.pc \in {"idle", "done"}
        /\ unreg' = [pc |-> IF available THEN "setShutdown" ELSE "done",
                     found |-> {},
                     todo |-> {},
                     log |-> <<ShutdownStep("getAssignments", 0, available)>>]
        /\ UNCHANGED <<hashVars, maxIdleTime, smVars, emVars, podVars>>

\* Ref.set(isShutdown, true), then Ref.get(entityManagers): the managers the
\* registry holds now are the ones to close
UnregisterSetShutdown ==
    /\ unreg.pc = "setShutdown"
    /\ isShutdown' = TRUE
    /\ unreg' = [pc |-> afterClose(RegisteredManagers, TRUE),
                 found |-> RegisteredManagers,
                 todo |-> RegisteredManagers,
                 log |-> Append(unreg.log, ShutdownStep("isShutdown", 0, TRUE))]
    /\ UNCHANGED <<hashVars, maxIdleTime, smVars, emVars, clientKind, podRegistered,
                   shardAssignments, entityManagers, events, managers, storage, now, lastOp>>

\* Scope.close(state.scope, Exit.void) of one manager, its failure logged
UnregisterClose ==
    \E m \in unreg.todo, ok \in BOOLEAN :
        /\ unreg.pc = "close"
        /\ managers' = [managers EXCEPT ![m] = closeManagerScope(@)]
        /\ unreg' = [pc |-> afterClose(unreg.todo \ {m}, ok),
                     found |-> unreg.found,
                     todo |-> unreg.todo \ {m},
                     log |-> Append(unreg.log, ShutdownStep("close", m, ok))]
        /\ UNCHANGED <<hashVars, maxIdleTime, smVars, emVars, clientKind, podRegistered,
                       isShutdown, shardAssignments, entityManagers, events, storage, now,
                       lastOp>>

\* shardManager.unregister(address), its failure logged
UnregisterCall ==
    \E ok \in BOOLEAN :
        /\ unreg.pc = "unregister"
        /\ podRegistered' = FALSE
        /\ unreg' = [unreg EXCEPT !.pc = "done",
                                  !.log = Append(@, ShutdownStep("unregister", 0, ok))]
        /\ UNCHANGED <<hashVars, maxIdleTime, smVars, emVars, clientKind, isShutdown,
                       shardAssignments, entityManagers, events, managers, storage, now,
                       lastOp>>

Next ==
    \/ Register
    \/ UnregisterStart
    \/ UnregisterSetShutdown
    \/ UnregisterClose
    \/ UnregisterCall
    \/ RegisterEntity
    \/ RefreshAssignments
    \/ SendEnvelope
    \/ SendMessage
    \/ Return

Spec == Init /\ [][Next]_vars

(***************************************************************************)
(* The hash specification: getShardId applied to bounded entityIds.        *)
(***************************************************************************)
\* UTF-16 code units the entityIds are made of: "a", "x", U+4E2D, U+FFFF
CodeUnits == {97, 120, 20013, 65535}

EntityIdStrings == UNION {[1 .. n -> CodeUnits] : n \in 0 .. MaxLen}

\* numberOfShards: 1 .. MaxShards, and the 16 of the single-pod scenario
ShardCounts == (1 .. MaxShards) \cup {16}

InitHash ==
    /\ hEntityId \in EntityIdStrings
    /\ hShards \in ShardCounts
    /\ hShardId = None
    /\ PodInit
    /\ ManagerInit
    /\ maxIdleTime = MaxIdleTime
    /\ ShardManagerIdle

\* sharding.getShardId(entityId) is called
ComputeShardId ==
    /\ hShardId = None
    /\ hShardId' = Some(getShardId(hEntityId, hShards))
    /\ UNCHANGED <<hEntityId, hShards, maxIdleTime, unreg, smVars, podVars, emVars>>

NextHash == ComputeShardId

SpecHash == InitHash /\ [][NextHash]_vars

(***************************************************************************)
(* The reference hash of section 4.9, on 32-bit words kept as sequences of *)
(* 32 bits, least significant first.                                       *)
(***************************************************************************)
RECURSIVE RefBitsOf(_, _)
RefBitsOf(n, k) == IF k = 0 THEN <<>> ELSE <<n % 2>> \o RefBitsOf(n \div 2, k - 1)

RefBits(n) == RefBitsOf(n, 32)

RECURSIVE RefAddFrom(_, _, _, _)
\* bits i .. 32 of a + b, given the carry into bit i
RefAddFrom(a, b, i, carry) ==
    IF i > 32 THEN <<>>
    ELSE <<(a[i] + b[i] + carry) % 2>>
            \o RefAddFrom(a, b, i + 1, (a[i] + b[i] + carry) \div 2)

RefShiftLeft5(a) == <<0, 0, 0, 0, 0>> \o SubSeq(a, 1, 27)

\* h * 33 = (h << 5) + h, in 32-bit arithmetic
RefTimes33(a) == RefAddFrom(RefShiftLeft5(a), a, 1, 0)

RECURSIVE RefXorFrom(_, _, _)
RefXorFrom(a, b, i) ==
    IF i > 32 THEN <<>>
    ELSE <<(a[i] + b[i]) % 2>> \o RefXorFrom(a, b, i + 1)

RECURSIVE RefDjb2Reverse(_, _)
\* h = (h * 33) XOR code, from the last code unit (i = Len) to the first
RefDjb2Reverse(str, i) ==
    IF i > Len(str) THEN RefBits(5381)
    ELSE RefXorFrom(RefTimes33(RefDjb2Reverse(str, i + 1)), RefBits(str[i]), 1)

\* (n & 0xBFFFFFFF) | ((n >>> 1) & 0x40000000): bit 30 is cleared, then set
\* to what bit 31 is; the other bits stay
RefHashOptimize(n) == SubSeq(n, 1, 30) \o <<n[32], n[32]>>

RECURSIVE RefLow31(_, _)
\* the value of bits 0 .. 30
RefLow31(n, i) == IF i > 31 THEN 0 ELSE (n[i] * (2 ^ (i - 1))) + RefLow31(n, i + 1)

\* the absolute value of the word read as a signed 32-bit integer
RefAbs(n) == IF n[32] = 1 THEN (2147483647 - RefLow31(n, 1)) + 1 ELSE RefLow31(n, 1)

RefShardId(entityId, numberOfShards) ==
    RefAbs(RefHashOptimize(RefDjb2Reverse(entityId, 1))) % numberOfShards

(***************************************************************************)
(* Claims.                                                                 *)
(***************************************************************************)

\* C8: for every entityId and every numberOfShards >= 1, getShardId(entityId)
\* equals abs(hashOptimize(djb2Reverse(entityId))) mod numberOfShards of the
\* reference, and lies in [0, numberOfShards).
C8_ShardIdMatchesReference ==
    hShardId # None =>
        /\ hShardId.value = RefShardId(hEntityId, hShards)
        /\ hShardId.value \in 0 .. (hShards - 1)

\* C8 witness: the shard of a longest entityId whose 32-bit hash is negative
\* has been computed, with more than one shard.
C8_Witness ==
    /\ hShardId # None
    /\ Len(hEntityId) = MaxLen
    /\ hashString(hEntityId) < 0
    /\ hShards > 1
    /\ hShardId.value > 0

\* C9 as stated: getShardId of the empty entityId is shard 0.
C9_EmptyIdIsShardZero ==
    (hEntityId = <<>> /\ hShardId # None) => hShardId.value = 0

\* C9 amended: getShardId of the empty entityId is 5381 mod numberOfShards,
\* which is shard 5 with 16 shards.
C9_EmptyIdIsSeedModShards ==
    (hEntityId = <<>> /\ hShardId # None) =>
        /\ hShardId.value = 5381 % hShards
        /\ hShards = 16 => hShardId.value = 5

\* C9 witness: the empty entityId has been hashed with 16 shards.
C9_Witness ==
    /\ hEntityId = <<>>
    /\ hShards = 16
    /\ hShardId = Some(5)

\* the envelope of the operation that just ran, and the cache entry of its shard
OpEnvelope == lastOp.envelope.value
OpAddress == OpEnvelope.address
OpMaybePod == HashMapGet(shardAssignments, podShardId(OpAddress.entityId))
OpCalls(fn) == {i \in DOMAIN lastOp.calls : lastOp.calls[i].fn = fn}

\* C1: in a single-pod deployment with the local ShardManager client, once the
\* pod has registered, an entity type is registered (and the cache holds the
\* client's assignments), a message sent through the type's Messenger never
\* fails with EntityNotManagedByPod.
C1_LocalMessengerSendIsManaged ==
    ( /\ clientKind = "local"
      /\ podRegistered
      /\ shardAssignments = CacheOf(makeLocalShards)
      /\ lastOp.op = "sendMessage"
      /\ OpAddress.entityType \in DOMAIN entityManagers
      /\ OpEnvelope.message \in Protocol )
    => lastOp.result # EntityNotManagedByPod

\* C2: while the cache maps the shard of the envelope's address to the local
\* pod, the entity type is registered and the pod is not shutting down,
\* sendEnvelope to the local pod never returns EntityNotManagedByPod.
C2_LocalShardIsManaged ==
    ( /\ lastOp.op = "sendEnvelope"
      /\ lastOp.pod = Some(LocalPod)
      /\ OpMaybePod = Some(LocalPod)
      /\ OpAddress.entityType \in DOMAIN entityManagers
      /\ ~isShutdown )
    => lastOp.result # EntityNotManagedByPod

\* C3: when the cache does not map the shard of the envelope's address to the
\* local pod, or no manager is registered for its entity type, a send to the
\* local pod fails with EntityNotManagedByPod, EntityManager.send is not
\* invoked, and the storage, the entities and the mailboxes stay as they were.
C3_UnmanagedIsRejectedUntouched ==
    [][ ( /\ lastOp = Idle
          /\ lastOp'.op = "sendEnvelope"
          /\ lastOp'.pod = Some(LocalPod)
          /\ \/ HashMapGet(shardAssignments,
                           podShardId(lastOp'.envelope.value.address.entityId))
                    # Some(LocalPod)
             \/ lastOp'.envelope.value.address.entityType \notin DOMAIN entityManagers )
        => /\ lastOp'.result = EntityNotManagedByPod
           /\ lastOp'.calls = <<>>
           /\ UNCHANGED <<storage, managers>> ]_vars

\* C4: sendEnvelope dispatches to exactly one plane: to the local pod, Pods.send
\* is not called; to any other pod, Pods.send(pod, envelope) is called exactly
\* once and no manager, mailbox or storage record is touched.
C4_OnePlane ==
    [][ (lastOp = Idle /\ lastOp'.op = "sendEnvelope") =>
          IF lastOp'.pod = Some(LocalPod)
          THEN /\ \A i \in DOMAIN lastOp'.calls : lastOp'.calls[i].fn # "Pods.send"
               /\ lastOp'.result # PodUnavailable
          ELSE /\ lastOp'.calls = <<Call("Pods.send", lastOp'.pod, lastOp'.envelope)>>
               /\ UNCHANGED <<storage, managers>> ]_vars

\* C4 witness: an envelope was sent to the peer pod, which shares the host of
\* the local pod, and went to Pods.send.
C4_Witness ==
    /\ lastOp.op = "sendEnvelope"
    /\ lastOp.pod = Some(PeerPod)
    /\ OpCalls("Pods.send") = {1}
    /\ entityManagers # EmptyMap

\* C5: whenever Pods.send fails with PodUnavailable, notifyUnhealthyPod(pod) is
\* called on the ShardManager client (and the error reaches the caller).
C5_UnavailablePodIsNotified ==
    lastOp.result = PodUnavailable =>
        \E i \in DOMAIN lastOp.calls :
            /\ lastOp.calls[i].fn = "ShardManager.notifyUnhealthyPod"
            /\ lastOp.calls[i].pod \in {Some(p) : p \in Pods}

\* C6: a Messenger send to an entityId whose shard has no pod in the cache
\* fails with EntityNotManagedByPod and calls neither Pods.send nor a manager;
\* when the cache holds a pod, the envelope goes to sendEnvelope with that pod.
C6_MessengerRoutesByCache ==
    lastOp.op = "sendMessage" =>
        /\ OpMaybePod = None =>
              /\ lastOp.result = EntityNotManagedByPod
              /\ lastOp.calls = <<>>
        /\ (OpMaybePod # None /\ OpEnvelope.message \in Protocol) =>
              IF OpMaybePod = Some(LocalPod)
              THEN /\ OpCalls("Pods.send") = {}
                   /\ lastOp.result # PodUnavailable
              ELSE lastOp.calls = <<Call("Pods.send", OpMaybePod, lastOp.envelope)>>

\* C6 witness: the cache held the peer pod for the shard of the entityId, and
\* the Messenger's envelope went to Pods.send for that pod.
C6_Witness ==
    /\ lastOp.op = "sendMessage"
    /\ OpMaybePod = Some(PeerPod)
    /\ lastOp.calls = <<Call("Pods.send", Some(PeerPod), lastOp.envelope)>>

\* C7: the local client's getAssignments assigns every ShardId of
\* [0, numberOfShards) to the local pod and holds no other key.
C7_LocalAssignmentsCoverShardIds ==
    clientKind = "local" =>
        \A assignments \in getAssignments :
            /\ DOMAIN assignments = ShardIds
            /\ \A s \in ShardIds : assignments[s] = Some(LocalPod)

\* C10: an envelope whose message does not decode, sent to the local pod that
\* owns its shard and has its entity type registered, returns MalformedMessage.
C10_MalformedIsReported ==
    ( /\ lastOp.op = "sendEnvelope"
      /\ lastOp.pod = Some(LocalPod)
      /\ OpEnvelope.message \notin Protocol
      /\ OpMaybePod = Some(LocalPod)
      /\ OpAddress.entityType \in DOMAIN entityManagers
      /\ ~isShutdown )
    => lastOp.result = MalformedMessage

(***************************************************************************)
(* The entity manager step by step (entityManager-old.ts, the Replier-     *)
(* based manager): one manager, its sends, behaviours, repliers,           *)
(* expiration fibers and terminations running as concurrent fibers.        *)
(***************************************************************************)
\* the addresses the manager is sent envelopes for
EmAddresses == {EntityAddress(podShardId(<<99>>), <<99>>, "Counter")}
\* the addresses that decode as an EntityAddress of the entity: any shard id
AnyShardAddresses == {EntityAddress(sh, <<99>>, "Counter") : sh \in ShardIds}

\* the message of send s: its primary key is s; "Invalid" does not decode
EmMessage(s, valid) == <<IF valid THEN "IncrementCounter" ELSE "Invalid", s>>

\* decodeEnvelope: the message decodes under entity.protocol
decodeEnvelope(envelope) == envelope.message[1] \in Protocol

\* a bug getOrCreateState could have: the finalizer that removes the entity
\* from the map is added first, so that it runs last
FinalizersRemoveFirst == <<"entities", "expiration", "mailbox", "behaviour", "gauge">>

\* what getOrCreateState adds to the entity scope, in the order it adds it:
\* the expiration fiber (forkIn), mailbox.shutdown, the behaviour fiber
\* (forkIn), the decrement of the gauge, the removal from the entities map
Finalizers == <<"expiration", "mailbox", "behaviour", "gauge", "entities">>

Reverse(seq) == [i \in 1 .. Len(seq) |-> seq[Len(seq) + 1 - i]]

\* a fiber that has ended by itself has nothing left to interrupt
StillHeld(state, by, name) ==
    CASE name = "expiration" -> state.expiration = "sleeping"
      [] name = "behaviour" -> by # "behaviour"
      [] OTHER -> TRUE

\* Scope.close of a sequential scope runs its finalizers last added, first run
closeOrder(state, by) ==
    SelectSeq(Reverse(Finalizers), LAMBDA name : StillHeld(state, by, name))

\* the EntityState getOrCreateState builds in a scope forked from the manager
\* scope.  Forked from a closed scope, the entity scope is closed: the fibers
\* forked in it are interrupted and each finalizer runs as it is added.
NewEntityState(address, scopeOpen, time) ==
    [address |-> address,
     scope |-> IF scopeOpen THEN "open" ELSE "closed",
     shutdown |-> ~scopeOpen,
     mailbox |-> <<>>,
     taken |-> <<>>,
     expiration |-> IF scopeOpen THEN "sleeping" ELSE "interrupted",
     wakeAt |-> time + maxIdleTime,
     closedBy |-> IF scopeOpen THEN "none" ELSE "creation",
     awaiting |-> FALSE,
     released |-> IF scopeOpen THEN <<>> ELSE Finalizers]

\* the finalizers Scope.close runs before it waits: those added after the
\* behaviour fiber, whose interruption it awaits
BeforeAwait ==
    LET rev == Reverse(Finalizers)
        at == CHOOSE i \in DOMAIN rev : rev[i] = "behaviour"
    IN  SubSeq(rev, 1, at - 1)

\* Ref.update(entities, HashMap.remove(address)), when that finalizer is among
\* the ones that run
removeWith(map, address, names) ==
    IF \E i \in DOMAIN names : names[i] = "entities"
    THEN HashMapRemove(map, address)
    ELSE map

\* Scope.close of an entity scope by another fiber, first part: the scope is
\* closed, the finalizers added after the behaviour fiber run (the address
\* leaves the map, the gauge), the behaviour fiber is interrupted and the
\* closing fiber waits for its exit
closeEntityScopeBegin(state, by) ==
    IF state.scope = "closed" THEN state
    ELSE [state EXCEPT !.scope = "closed", !.closedBy = by, !.awaiting = TRUE,
                       !.released = BeforeAwait]

\* Scope.close of an entity scope, second part, once the behaviour fiber has
\* ended: mailbox.shutdown, then the expiration fiber is interrupted; what the
\* mailbox held is not delivered
closeEntityScopeEnd(state) ==
    [state EXCEPT !.shutdown = TRUE,
                  !.awaiting = FALSE,
                  !.expiration = IF @ = "sleeping" THEN "interrupted" ELSE @,
                  !.wakeAt = 0,
                  !.released = closeOrder(state, state.closedBy)]

\* Scope.close of an entity scope by its own behaviour fiber
\* (Effect.ensuring): no fiber to wait for, the finalizers run in one go
closeEntityScope(state, by) ==
    IF state.scope = "closed" THEN state
    ELSE closeEntityScopeEnd(closeEntityScopeBegin(state, by))

\* the scope of instance k is being closed: its closing fiber waits for the
\* behaviour fiber, the mailbox is not shut down yet
Closing(k) == instances[k].awaiting

\* the interruption of the behaviour fiber of an entity ends the Replier calls
\* it waits in: their updateMessage is not followed by the clock read and the
\* write of lastActiveTimes
interruptReplies(pending, address) == {r \in pending : r.address # address}

\* the close of the manager scope interrupts a terminateEntity fiber in the
\* wait of its Scope.close: the close is given up as it is, with the mailbox
\* not shut down and the expiration fiber left alone
interruptClose(state) ==
    IF state.awaiting /\ state.closedBy = "terminateEntity"
    THEN [state EXCEPT !.awaiting = FALSE]
    ELSE state

\* semaphore.withPermits(1): the permit is held by a terminateEntity from its
\* lookup to the end of its Scope.close
PermitFree ==
    \A k \in DOMAIN instances : ~(Closing(k) /\ instances[k].closedBy = "terminateEntity")

\* startExpirationFiber.sleep: what is left of maxIdleTime at instant time
remaining(times, address, time) ==
    LET lastActive == IF address \in DOMAIN times THEN times[address] ELSE 0
    IN  maxIdleTime - (time - lastActive)

\* a bug terminateEntity could have: the last active time of the address is
\* forgotten, whether the address has a state or not
terminateEntityForgetting(map, insts, times, address) ==
    IF address \in DOMAIN map /\ insts[map[address]].scope = "open"
    THEN [entities |-> removeWith(map, address, BeforeAwait),
          instances |-> [insts EXCEPT ![map[address]] =
                            closeEntityScopeBegin(@, "terminateEntity")],
          lastActiveTimes |-> HashMapRemove(times, address)]
    ELSE [entities |-> map, instances |-> insts,
          lastActiveTimes |-> HashMapRemove(times, address)]

\* terminateEntity(address), up to the wait of its Scope.close: the scope of
\* the state found under the address is closed, whose finalizer removes the
\* address; nothing when the address is absent, or when the scope is closed
\* already
terminateEntity(map, insts, times, address) ==
    IF address \in DOMAIN map /\ insts[map[address]].scope = "open"
    THEN [entities |-> removeWith(map, address, BeforeAwait),
          instances |-> [insts EXCEPT ![map[address]] =
                            closeEntityScopeBegin(@, "terminateEntity")],
          lastActiveTimes |-> times]
    ELSE [entities |-> map, instances |-> insts, lastActiveTimes |-> times]

\* a bug send could have: a failed saveMessage is ignored and the message is
\* delivered all the same
sendDecodeAndSaveAnyway(envelope, saveOutcome, store) ==
    IF ~decodeEnvelope(envelope)
    THEN [pc |-> "done", save |-> None, entry |-> None,
          result |-> Some(MalformedMessage), storage |-> store]
    ELSE [pc |-> "resolve", save |-> Some(saveOutcome),
          entry |-> Some(Entry(store, envelope.address, envelope.message)),
          result |-> None,
          storage |-> IF saveOutcome = "saved"
                      THEN saveMessage(store, envelope.address, envelope.message)
                      ELSE store]

\* a bug send could have: the entry is built and delivered without the record
\* being written
sendDecodeAndSkipSave(envelope, saveOutcome, store) ==
    IF ~decodeEnvelope(envelope)
    THEN [pc |-> "done", save |-> None, entry |-> None,
          result |-> Some(MalformedMessage), storage |-> store]
    ELSE IF saveOutcome # "saved"
    THEN [pc |-> "done", save |-> Some(saveOutcome), entry |-> None,
          result |-> Some(Ok), storage |-> store]
    ELSE [pc |-> "resolve", save |-> Some(saveOutcome),
          entry |-> Some(Entry(store, envelope.address, envelope.message)),
          result |-> None, storage |-> store]

\* send, first part: decodeEnvelope, then storage.saveMessage; a ParseError
\* becomes MalformedMessage, a NoSuchElementException or a
\* MessagePersistenceError of the storage ends the send with success
sendDecodeAndSave(envelope, saveOutcome, store) ==
    IF ~decodeEnvelope(envelope)
    THEN [pc |-> "done", save |-> None, entry |-> None,
          result |-> Some(MalformedMessage), storage |-> store]
    ELSE IF saveOutcome # "saved"
    THEN [pc |-> "done", save |-> Some(saveOutcome), entry |-> None,
          result |-> Some(Ok), storage |-> store]
    ELSE [pc |-> "resolve", save |-> Some(saveOutcome),
          entry |-> Some(Entry(store, envelope.address, envelope.message)),
          result |-> None,
          storage |-> saveMessage(store, envelope.address, envelope.message)]

\* send is called with an envelope for one of the addresses: decodeEnvelope,
\* then storage.saveMessage
SendSaveWith(s, addresses, valids, outcomes) ==
    \E address \in addresses, valid \in valids :
      \E saveOutcome \in (IF valid THEN outcomes ELSE {"saved"}) :
        LET envelope == [address |-> address, message |-> EmMessage(s, valid)]
            r == sendDecodeAndSave(envelope, saveOutcome, storage)
        IN  /\ sends[s].pc = "idle"
            /\ \A t \in SendIds : t < s => sends[t].pc # "idle"
            /\ sends' = [sends EXCEPT ![s] =
                   [NoSend EXCEPT !.pc = r.pc, !.envelope = Some(envelope),
                                  !.save = r.save, !.entry = r.entry,
                                  !.result = r.result]]
            /\ storage' = r.storage
            /\ UNCHANGED <<hashVars, maxIdleTime, unreg, smVars, clientKind, podRegistered, isShutdown,
                           shardAssignments, entityManagers, events, managers, now,
                           lastOp, managerScope, entities, instances, lastActiveTimes,
                           replies, terminations>>

\* send is called with any envelope for one of the addresses, and saveMessage
\* has any of its outcomes
SendSaveOf(s, addresses) == SendSaveWith(s, addresses, BOOLEAN, SaveOutcomes)

\* send is called for an address that carries the shard of its entity id
SendSave(s) == SendSaveOf(s, EmAddresses)

\* send is called with an envelope that decodes, and saveMessage succeeds
SendSaved(s) == SendSaveWith(s, EmAddresses, {TRUE}, {"saved"})

\* send is called for an address that carries another shard: decodeEnvelope
\* checks the shape of the address and nothing else
SendSaveAnyShard(s) == SendSaveOf(s, AnyShardAddresses \ EmAddresses)

\* a bug getOrCreateState could have: isShutdown is not looked at
getOrCreateEntityStateAnyway(map, insts, address, shutdown, scopeOpen, time) ==
    IF address \in DOMAIN map
    THEN [result |-> Ok, state |-> map[address], entities |-> map, instances |-> insts]
    ELSE [result |-> Ok, state |-> Len(insts) + 1,
          entities |-> HashMapSet(map, address, Len(insts) + 1),
          instances |-> Append(insts, NewEntityState(address, scopeOpen, time))]

\* getOrCreateState(address): the state under the address; when there is none,
\* EntityNotManagedByPod if sharding.isShutdown, else a new state is built in
\* a scope forked from the manager scope and set under the address
getOrCreateEntityState(map, insts, address, shutdown, scopeOpen, time) ==
    IF address \in DOMAIN map
    THEN [result |-> Ok, state |-> map[address], entities |-> map, instances |-> insts]
    ELSE IF shutdown
    THEN [result |-> EntityNotManagedByPod, state |-> 0, entities |-> map,
          instances |-> insts]
    ELSE [result |-> Ok, state |-> Len(insts) + 1,
          entities |-> HashMapSet(map, address, Len(insts) + 1),
          instances |-> Append(insts, NewEntityState(address, scopeOpen, time))]

\* sendMessageToEntity: getOrCreateState(address), under the semaphore; also
\* the retry of a send whose offer failed, after its 100 ms delay
GetOrCreateState(s) ==
    LET r == getOrCreateEntityState(entities, instances,
                                    sends[s].envelope.value.address, isShutdown,
                                    managerScope = "open", now)
    IN  /\ sends[s].pc \in {"resolve", "delay"}
        /\ PermitFree
        /\ Len(r.instances) <= MaxInstances
        /\ entities' = r.entities
        /\ instances' = r.instances
        /\ sends' = IF r.result = Ok
                    THEN [sends EXCEPT ![s].pc = "offer", ![s].state = r.state]
                    ELSE [sends EXCEPT ![s].pc = "done", ![s].result = Some(r.result)]
        /\ UNCHANGED <<hashVars, maxIdleTime, unreg, smVars, podVars, managerScope, lastActiveTimes, replies,
                       terminations>>

\* sendMessageToEntity: state.mailbox.offer(entry); on a mailbox shut down the
\* offer fails and the send is retried after the delay
MailboxOffer(s) ==
    LET k == sends[s].state
    IN  /\ sends[s].pc = "offer"
        /\ IF instances[k].shutdown
           THEN /\ sends' = [sends EXCEPT ![s].pc = "delay", ![s].state = 0]
                /\ UNCHANGED instances
           ELSE /\ instances' = [instances EXCEPT ![k].mailbox =
                                     Append(@, sends[s].entry.value)]
                /\ sends' = [sends EXCEPT ![s].pc = "done", ![s].state = 0,
                                          ![s].result = Some(Ok)]
        /\ UNCHANGED <<hashVars, maxIdleTime, unreg, smVars, podVars, managerScope, entities, lastActiveTimes,
                       replies, terminations>>

\* the behaviour of entity instance k takes the next entry of its mailbox
BehaviorTake(k) ==
    /\ instances[k].scope = "open"
    /\ instances[k].mailbox # <<>>
    /\ instances' = [instances EXCEPT ![k].taken = Append(@, Head(instances[k].mailbox)),
                                      ![k].mailbox = Tail(@)]
    /\ UNCHANGED <<hashVars, maxIdleTime, unreg, smVars, podVars, managerScope, entities, lastActiveTimes, sends,
                   replies, terminations>>

\* the behaviour of instance k ends: Effect.ensuring(Scope.close(scope,
\* Exit.void)) closes the entity scope, whose finalizer removes the address
BehaviorExit(k) ==
    /\ instances[k].scope = "open"
    /\ instances' = [instances EXCEPT ![k] = closeEntityScope(@, "behaviour")]
    /\ entities' = HashMapRemove(entities, instances[k].address)
    /\ replies' = interruptReplies(replies, instances[k].address)
    /\ UNCHANGED <<hashVars, maxIdleTime, unreg, smVars, podVars, managerScope, lastActiveTimes, sends,
                   terminations>>

\* a bug complete could have: the last active time of an address that has one
\* is left alone
setLastActiveOnce(times, address, time) ==
    IF address \in DOMAIN times THEN times ELSE HashMapSet(times, address, time)

\* complete: Ref.update(lastActiveTimes, HashMap.set(address, now))
setLastActive(times, address, time) == HashMapSet(times, address, time)

\* the message is Processed already and no Replier call is under way
Replied(address, message) ==
    /\ updateMessage(storage, address, message) = storage
    /\ replies = {}

\* a bug complete could have: the Processed state is not written before the
\* clock is read and the last active time set
completeWithoutUpdate(store, address, message) == store

\* complete: storage.updateMessage(address, message, processed(result)) comes
\* first in the pipe
completeUpdate(store, address, message) == updateMessage(store, address, message)

\* makeReplier.complete, first part: storage.updateMessage(address, message,
\* Processed), for any entry the behaviour took; the call waits for the storage
ReplierComplete(k) ==
    \E i \in DOMAIN instances[k].taken :
        LET entry == instances[k].taken[i]
            address == instances[k].address
        IN  /\ Cardinality(replies) < MaxReplies
            /\ instances[k].scope = "open"
            /\ storage' = completeUpdate(storage, address, entry.message)
            /\ replies' = replies \cup
                   {[address |-> address, message |-> entry.message,
                     repeat |-> Replied(address, entry.message), now |-> None]}
            /\ UNCHANGED <<hashVars, maxIdleTime, unreg, smVars, clientKind, podRegistered, isShutdown,
                           shardAssignments, entityManagers, events, managers, now,
                           lastOp, managerScope, entities, instances, lastActiveTimes,
                           sends, terminations>>

\* makeReplier.complete, second part, once updateMessage has answered:
\* Clock.currentTimeMillis
ReplierReadClock(r) ==
    /\ r \in replies
    /\ r.now = None
    /\ replies' = (replies \ {r}) \cup {[r EXCEPT !.now = Some(now)]}
    /\ UNCHANGED <<hashVars, maxIdleTime, unreg, smVars, podVars, managerScope, entities, instances,
                   lastActiveTimes, sends, terminations>>

\* makeReplier.complete, last part, the next effect of the pipe:
\* Ref.update(lastActiveTimes, HashMap.set(address, now)) with the time read,
\* whatever the map holds
ReplierSetLastActive(r) ==
    /\ r \in replies
    /\ r.now # None
    /\ lastActiveTimes' = setLastActive(lastActiveTimes, r.address, r.now.value)
    /\ replies' = replies \ {r}
    /\ UNCHANGED <<hashVars, maxIdleTime, unreg, smVars, podVars, managerScope, entities, instances, sends,
                   terminations>>

\* Effect.forkIn(managerScope) of terminateEntity(address) by the expiration
\* fiber of instance k: the fiber is added to the finalizers of the manager
\* scope, after the entity scopes forked so far and the fibers forked so far;
\* it closes no scope yet
forkTermination(address, k) ==
    LET ords == {0} \cup {u.ord : u \in terminations}
    IN  [address |-> address, by |-> k, after |-> Len(instances),
         ord |-> 1 + CHOOSE m \in ords : \A n \in ords : n <= m,
         closing |-> 0]

\* startExpirationFiber: the sleep of instance k is over; it sleeps again for
\* what remains, or forks terminateEntity(address) in the manager scope
ExpirationWake(k) ==
    LET address == instances[k].address
        left == remaining(lastActiveTimes, address, now)
    IN  /\ instances[k].expiration = "sleeping"
        /\ now >= instances[k].wakeAt
        /\ IF left > 0
           THEN /\ instances' = [instances EXCEPT ![k].wakeAt = now + left]
                /\ UNCHANGED terminations
           ELSE /\ instances' = [instances EXCEPT ![k].expiration = "done",
                                                   ![k].wakeAt = 0]
                /\ terminations' = IF managerScope = "open"
                                   THEN terminations \cup {forkTermination(address, k)}
                                   ELSE terminations
        /\ UNCHANGED <<hashVars, maxIdleTime, unreg, smVars, podVars, managerScope, entities, lastActiveTimes,
                       sends, replies>>

\* a forked terminateEntity(address) gets the permit and runs, up to the wait
\* of its Scope.close; with nothing to close the fiber ends
TerminateEntity(t) ==
    LET r == terminateEntity(entities, instances, lastActiveTimes, t.address)
    IN  /\ t \in terminations
        /\ t.closing = 0
        /\ PermitFree
        /\ entities' = r.entities
        /\ instances' = r.instances
        /\ lastActiveTimes' = r.lastActiveTimes
        /\ terminations' = IF r.instances = instances
                           THEN terminations \ {t}
                           ELSE (terminations \ {t}) \cup
                                    {[t EXCEPT !.closing = entities[t.address]]}
        /\ replies' = IF r.instances = instances THEN replies
                      ELSE interruptReplies(replies, t.address)
        /\ UNCHANGED <<hashVars, maxIdleTime, unreg, smVars, podVars, managerScope, sends>>

\* Scope.close of the scope of instance k goes on after the behaviour fiber
\* has ended: the rest of the finalizers; a terminateEntity gives the permit
\* back and ends
CloseEntityEnd(k) ==
    /\ Closing(k)
    /\ instances' = [instances EXCEPT ![k] = closeEntityScopeEnd(@)]
    /\ entities' = IF removeWith(entities, instances[k].address, BeforeAwait) = entities
                   THEN removeWith(entities, instances[k].address, Finalizers)
                   ELSE entities
    /\ terminations' = {t \in terminations : t.closing # k}
    /\ UNCHANGED <<hashVars, maxIdleTime, unreg, smVars, podVars, managerScope, lastActiveTimes,
                   sends, replies>>

\* sharding.ts unregister, seen from the manager: Ref.set(isShutdown, true),
\* whatever the state of the manager scope
ManagerShutdown ==
    /\ unreg.pc = "idle"
    /\ isShutdown' = TRUE
    /\ unreg' = [NoUnregister EXCEPT !.pc = "close"]
    /\ UNCHANGED <<hashVars, maxIdleTime, smVars, emVars, clientKind, podRegistered,
                   shardAssignments, entityManagers, events, managers, storage, now, lastOp>>

\* the finalizers of the manager scope are run one after another, the last
\* added first: the close of an entity scope forked from it, the interruption
\* of a terminateEntity fiber forked in it.  No finalizer is begun while the
\* close of an entity scope by the manager scope waits for its behaviour
ManagerScopeWaits ==
    \E j \in DOMAIN instances : Closing(j) /\ instances[j].closedBy = "unregister"

\* the fiber t is the finalizer to run next: every fiber left was forked
\* before it, every entity scope still open was forked before it
NextToInterrupt(t) ==
    /\ t \in terminations
    /\ \A u \in terminations : u.ord <= t.ord
    /\ \A j \in DOMAIN instances : instances[j].scope = "open" => j <= t.after

\* the scope of instance k is the finalizer to run next: every scope still
\* open was forked before it, and so was every fiber left
NextToClose(k) ==
    /\ instances[k].scope = "open"
    /\ \A j \in DOMAIN instances : instances[j].scope = "open" => j <= k
    /\ \A u \in terminations : u.after < k

\* the interruption of the terminateEntity fiber t: a fiber that waits for
\* the permit ends there, one inside its Scope.close gives the close up and
\* the permit back
interruptTermination(insts, t) ==
    IF t.closing = 0 THEN insts
    ELSE [insts EXCEPT ![t.closing] = interruptClose(@)]

\* the manager scope has a finalizer left to run
FinalizerLeft ==
    \/ \E t \in terminations : NextToInterrupt(t)
    \/ \E k \in DOMAIN instances : NextToClose(k)

\* the next finalizer of the manager scope, up to its wait: a terminateEntity
\* fiber is interrupted, or Scope.close of the entity scope of an instance
\* begins
runNextFinalizer ==
    IF \E t \in terminations : NextToInterrupt(t)
    THEN LET t == CHOOSE u \in terminations : NextToInterrupt(u)
         IN  [terminations |-> terminations \ {t},
              instances |-> interruptTermination(instances, t),
              entities |-> entities,
              replies |-> replies]
    ELSE IF \E k \in DOMAIN instances : NextToClose(k)
    THEN LET k == CHOOSE j \in DOMAIN instances : NextToClose(j)
         IN  [terminations |-> terminations,
              instances |-> [instances EXCEPT
                                ![k] = closeEntityScopeBegin(@, "unregister")],
              entities |-> removeWith(entities, instances[k].address, BeforeAwait),
              replies |-> interruptReplies(replies, instances[k].address)]
    ELSE [terminations |-> terminations, instances |-> instances,
          entities |-> entities, replies |-> replies]

\* unregister goes on: Scope.close(state.scope) of the manager scope.  The
\* scope is closed from now on and its finalizers are run, the last added
\* first; the first of them is begun in this step.  A scope closed already is
\* left alone
ManagerScopeClose ==
    LET r == runNextFinalizer
    IN  /\ unreg.pc = "close"
        /\ managerScope' = "closed"
        /\ IF managerScope = "open"
           THEN /\ terminations' = r.terminations
                /\ instances' = r.instances
                /\ entities' = r.entities
                /\ replies' = r.replies
           ELSE UNCHANGED <<terminations, instances, entities, replies>>
        /\ unreg' = NoUnregister
        /\ UNCHANGED <<hashVars, maxIdleTime, smVars, podVars, lastActiveTimes, sends>>

\* the close of the manager scope goes on with its next finalizer, once the
\* one before has ended
ManagerRunFinalizer ==
    LET r == runNextFinalizer
    IN  /\ managerScope = "closed"
        /\ ~ManagerScopeWaits
        /\ FinalizerLeft
        /\ terminations' = r.terminations
        /\ instances' = r.instances
        /\ entities' = r.entities
        /\ replies' = r.replies
        /\ UNCHANGED <<hashVars, maxIdleTime, unreg, smVars, podVars, managerScope,
                       lastActiveTimes, sends>>

\* sharding.ts register, seen from the manager: isShutdown := false
ManagerRegister ==
    /\ isShutdown
    /\ isShutdown' = FALSE
    /\ UNCHANGED <<hashVars, maxIdleTime, unreg, smVars, emVars, clientKind, podRegistered, shardAssignments,
                   entityManagers, events, managers, storage, now, lastOp>>

\* the clock advances
ClockTick ==
    /\ now < MaxTime
    /\ now' = now + 1
    /\ UNCHANGED <<hashVars, maxIdleTime, unreg, smVars, emVars, clientKind, podRegistered, isShutdown,
                   shardAssignments, entityManagers, events, managers, storage, lastOp>>

SendStep(s) == SendSave(s) \/ GetOrCreateState(s) \/ MailboxOffer(s)

InitEM ==
    /\ HashIdle
    /\ PodInit
    /\ clientKind = "local"
    /\ ManagerInit
    /\ maxIdleTime = MaxIdleTime
    /\ ShardManagerIdle

\* the entity manager made with options.maxIdleTime = 0
InitEMZero ==
    /\ HashIdle
    /\ PodInit
    /\ clientKind = "local"
    /\ ManagerInit
    /\ maxIdleTime = 0
    /\ ShardManagerIdle

NextEM ==
    \/ \E s \in SendIds : SendSave(s)
    \/ \E s \in SendIds : GetOrCreateState(s)
    \/ \E s \in SendIds : MailboxOffer(s)
    \/ \E k \in DOMAIN instances : BehaviorTake(k)
    \/ \E k \in DOMAIN instances : BehaviorExit(k)
    \/ \E k \in DOMAIN instances : ReplierComplete(k)
    \/ \E r \in replies : ReplierReadClock(r)
    \/ \E r \in replies : ReplierSetLastActive(r)
    \/ \E k \in DOMAIN instances : ExpirationWake(k)
    \/ \E t \in terminations : TerminateEntity(t)
    \/ \E k \in DOMAIN instances : CloseEntityEnd(k)
    \/ ManagerShutdown
    \/ ManagerScopeClose
    \/ ManagerRunFinalizer
    \/ ManagerRegister
    \/ ClockTick

SpecEM == InitEM /\ [][NextEM]_vars

\* the behaviour of an entity replies to an entry it took and that is Pending
ReplierCompletePending ==
    \E k \in DOMAIN instances : ReplierComplete(k) /\ storage' # storage

\* fair scheduling: every fiber that can take a step eventually takes one
SpecEMFair ==
    /\ SpecEM
    /\ \A s \in SendIds : WF_vars(GetOrCreateState(s) \/ MailboxOffer(s))
    /\ WF_vars(\E k \in DOMAIN instances : BehaviorTake(k))
    /\ WF_vars(\E r \in replies : ReplierReadClock(r))
    /\ WF_vars(\E r \in replies : ReplierSetLastActive(r))
    /\ WF_vars(\E k \in DOMAIN instances : ExpirationWake(k))
    /\ WF_vars(\E t \in terminations : TerminateEntity(t))
    /\ WF_vars(\E k \in DOMAIN instances : CloseEntityEnd(k))
    /\ WF_vars(ManagerScopeClose)
    /\ WF_vars(ManagerRunFinalizer)

\* the entity manager with its fibers scheduled and every behaviour replying,
\* while its scope is open, to what it took: the Replier call may have to wait
\* for another call to end, which happens again and again
SpecEMReplying ==
    /\ SpecEMFair
    /\ SF_vars(ReplierCompletePending)

\* the manager is also sent envelopes whose address carries another shard
NextEMAnyShard ==
    \/ NextEM
    \/ \E s \in SendIds : SendSaveAnyShard(s)

SpecEMAnyShard == InitEM /\ [][NextEMAnyShard]_vars

SpecEMZero == InitEMZero /\ [][NextEM]_vars

\* maxIdleTime = 0 under the same fair scheduling
SpecEMZeroFair ==
    /\ SpecEMZero
    /\ \A s \in SendIds : WF_vars(GetOrCreateState(s) \/ MailboxOffer(s))
    /\ WF_vars(\E k \in DOMAIN instances : BehaviorTake(k))
    /\ WF_vars(\E r \in replies : ReplierReadClock(r))
    /\ WF_vars(\E r \in replies : ReplierSetLastActive(r))
    /\ WF_vars(\E k \in DOMAIN instances : ExpirationWake(k))
    /\ WF_vars(\E t \in terminations : TerminateEntity(t))
    /\ WF_vars(\E k \in DOMAIN instances : CloseEntityEnd(k))
    /\ WF_vars(ManagerScopeClose)
    /\ WF_vars(ManagerRunFinalizer)

\* the entries offered to the mailbox of instance k, in the order of the offers
Offered(k) == instances[k].taken \o instances[k].mailbox

\* C11: for each entity, the entries are offered to its mailbox (and taken by
\* the behaviour) in increasing sequenceNumber order, for every interleaving of
\* concurrent sends to the address.
C11_OfferedInSequenceOrder ==
    \A k \in DOMAIN instances :
        \A i, j \in DOMAIN Offered(k) :
            i < j => Offered(k)[i].sequenceNumber < Offered(k)[j].sequenceNumber

\* the storage holds a record of the message
Persisted(message) == \E i \in DOMAIN storage : storage[i].entry.message = message

\* the message has been offered to the mailbox of some entity
OfferedAnywhere(message) ==
    \E k \in DOMAIN instances :
        \E i \in DOMAIN Offered(k) : Offered(k)[i].message = message

SaveFailed(s) ==
    sends[s].save \in {Some("NoSuchElementException"), Some("MessagePersistenceError")}

\* C12: when saveMessage fails with MessagePersistenceError or
\* NoSuchElementException, send completes with success at once, leaving the
\* storage, the entities map and every entity as they were, and the message is
\* never offered to a mailbox.
C12_FailedSaveDropsMessage ==
    /\ [](\A s \in SendIds :
            SaveFailed(s) =>
                /\ sends[s].pc = "done"
                /\ sends[s].result = Some(Ok)
                /\ ~OfferedAnywhere(sends[s].envelope.value.message))
    /\ [][\A s \in SendIds :
            (sends[s].pc = "idle" /\ sends'[s].pc # "idle" /\ sends'[s].save # Some("saved")
                /\ sends'[s].result # Some(MalformedMessage))
            => UNCHANGED <<storage, entities, instances>>]_vars

\* C12 witness: a send whose saveMessage failed with MessagePersistenceError
\* has returned success while another message was delivered to an entity.
C12_Witness ==
    \E s, t \in SendIds :
        /\ sends[s].save = Some("MessagePersistenceError")
        /\ sends[s].result = Some(Ok)
        /\ sends[t].save = Some("saved")
        /\ OfferedAnywhere(sends[t].envelope.value.message)

\* the records of the storage that hold the entry
RecordsOf(entry) == {i \in DOMAIN storage : storage[i].entry = entry}

\* the instances whose behaviour took the entry / whose mailbox was offered it
TakenBy(entry) ==
    {k \in DOMAIN instances : \E i \in DOMAIN instances[k].taken : instances[k].taken[i] = entry}
OfferedTo(entry) ==
    {k \in DOMAIN instances : \E i \in DOMAIN Offered(k) : Offered(k)[i] = entry}

\* C13 as stated: every message for which send returned success has a record
\* in MailboxStorage.
C13_AcceptedIsPersisted ==
    \A s \in SendIds :
        sends[s].result = Some(Ok) => Persisted(sends[s].envelope.value.message)

\* the record of the entry is settled: Processed, or Pending with the scope of
\* every entity the entry was offered to closed
SettledRecord(entry) ==
    \A i \in RecordsOf(entry) :
        \/ storage[i].state = "Processed"
        \/ /\ storage[i].state = "Pending"
           /\ \A k \in OfferedTo(entry) : instances[k].scope = "closed"

\* C13 amended: every message for which send returned success after its
\* saveMessage succeeded has a record, which is eventually marked Processed by
\* a Replier call of a behaviour that took the entry, or stays Pending because
\* the scope of its entity was closed before the behaviour replied.
C13_SavedAcceptedIsPersisted ==
    /\ [](\A s \in SendIds :
            (sends[s].result = Some(Ok) /\ sends[s].save = Some("saved")) =>
                LET entry == sends[s].entry.value
                IN  /\ Cardinality(RecordsOf(entry)) = 1
                    /\ Cardinality(OfferedTo(entry)) = 1
                    /\ \A i \in RecordsOf(entry) :
                          /\ storage[i].state \in {"Pending", "Processed"}
                          /\ storage[i].state = "Processed" => TakenBy(entry) # {})
    /\ \A s \in SendIds :
          (sends[s].result = Some(Ok) /\ sends[s].save = Some("saved"))
              ~> (sends[s].entry # None /\ SettledRecord(sends[s].entry.value))
    /\ [][\A i \in DOMAIN storage :
            ( /\ storage[i].state = "Pending"
              /\ OfferedTo(storage[i].entry) # {}
              /\ \A k \in OfferedTo(storage[i].entry) : instances[k].scope = "closed" )
            => storage'[i].state = "Pending"]_vars

\* C13 witness: two sends returned success for saved messages; the record of
\* one was marked Processed, and the entity the other was offered to was closed
\* with the entry still in its mailbox: its record is Pending.
C13_Witness ==
    \E s, t \in SendIds :
        /\ sends[s].result = Some(Ok) /\ sends[s].save = Some("saved")
        /\ sends[t].result = Some(Ok) /\ sends[t].save = Some("saved")
        /\ \E k \in OfferedTo(sends[s].entry.value) :
              /\ instances[k].scope = "closed"
              /\ instances[k].mailbox # <<>>
        /\ \A i \in RecordsOf(sends[s].entry.value) : storage[i].state = "Pending"
        /\ \A i \in RecordsOf(sends[t].entry.value) : storage[i].state = "Processed"

\* C14: when isShutdown is true and the address has no entry in the entities
\* map, the send that resolves the state fails with EntityNotManagedByPod and
\* creates nothing: the entities map, every entity and the terminations stay
\* as they were.
C14_ShutdownCreatesNoEntity ==
    [][\A s \in SendIds :
        ( /\ sends[s].pc \in {"resolve", "delay"}
          /\ sends'[s] # sends[s]
          /\ isShutdown
          /\ sends[s].envelope.value.address \notin DOMAIN entities )
        => /\ sends'[s].pc = "done"
           /\ sends'[s].result = Some(EntityNotManagedByPod)
           /\ UNCHANGED <<entities, instances, terminations, lastActiveTimes>>]_vars

\* C14 witness: a send was rejected with EntityNotManagedByPod while the pod
\* was shutting down and the entities map was empty.
C14_Witness ==
    \E s \in SendIds :
        /\ sends[s].result = Some(EntityNotManagedByPod)
        /\ isShutdown
        /\ entities = EmptyMap

\* C15: during pod shutdown the messages already enqueued in the mailbox of an
\* existing entity are delivered to its behaviour before the entity's scope is
\* closed: an entity closed by unregister has nothing left in its mailbox.
C15_ShutdownDrainsMailboxes ==
    \A k \in DOMAIN instances :
        instances[k].closedBy = "unregister" => instances[k].mailbox = <<>>

\* the retry of send s would create one entity more than MaxInstances
CreationCapped(s) ==
    /\ sends[s].pc = "delay"
    /\ ~isShutdown
    /\ sends[s].envelope.value.address \notin DOMAIN entities
    /\ Len(instances) = MaxInstances

\* C16: under fair scheduling every send whose mailbox offer failed eventually
\* completes, with the entry enqueued or with EntityNotManagedByPod; it does
\* not retry forever against the same shut-down mailbox.
C16_FailedOfferCompletes ==
    \A s \in SendIds :
        (sends[s].pc = "delay") ~> (sends[s].pc = "done" \/ CreationCapped(s))

\* the entity under the address is live, and is instance k
LiveAs(address, k) ==
    /\ address \in DOMAIN entities
    /\ entities[address] = k
    /\ instances[k].scope = "open"

\* C17: over the lifetime of an entity, lastActiveTimes[address] never
\* decreases from one state to the next, for every interleaving of Replier
\* calls for the address under a non-decreasing clock.
C17_LastActiveNeverDecreases ==
    [][\A address \in DOMAIN lastActiveTimes :
        (\E k \in DOMAIN instances : LiveAs(address, k) /\ LiveAs(address, k)')
        => /\ address \in DOMAIN lastActiveTimes'
           /\ lastActiveTimes'[address] >= lastActiveTimes[address]]_vars

\* a second complete of a message runs its first part / reply r, a second
\* complete of a message, runs its last part
SecondCompleteStarts == \E r \in replies' \ replies : r.repeat /\ r.now = None
SecondCompleteEnds(r) ==
    r \in replies /\ r \notin replies' /\ r.repeat /\ r.now # None /\ instances' = instances

\* C18 as stated: a second complete(message, exit) with the same exit leaves
\* the manager and the storage as they were after the first call.
C18_SecondCompleteChangesNothing ==
    [][(SecondCompleteStarts \/ \E r \in replies : SecondCompleteEnds(r))
        => UNCHANGED <<storage, entities, instances, lastActiveTimes>>]_vars

\* C18 amended: a second complete(message, exit) with the same exit leaves the
\* storage, the entities map and every entity as they were, and sets
\* lastActiveTimes[address] to the time it read once its update was answered.
C18_SecondCompleteRefreshesLastActive ==
    [][/\ SecondCompleteStarts
              => UNCHANGED <<storage, entities, instances, lastActiveTimes>>
       /\ \A r \in replies :
            SecondCompleteEnds(r)
              => /\ UNCHANGED <<storage, entities, instances>>
                 /\ r.address \in DOMAIN lastActiveTimes'
                 /\ lastActiveTimes'[r.address] = r.now.value
                 /\ \A a \in DOMAIN lastActiveTimes' \ {r.address} :
                        a \in DOMAIN lastActiveTimes /\ lastActiveTimes'[a] = lastActiveTimes[a]]_vars

\* C18 witness: a second complete of a Processed message has read a clock
\* later than the last active time the first call left.
C18_Witness ==
    \E r \in replies :
        /\ r.repeat
        /\ r.now # None
        /\ r.address \in DOMAIN lastActiveTimes
        /\ r.now.value > lastActiveTimes[r.address]

\* a forked terminateEntity(address) runs while the address has no state
TerminatesAbsent(t) ==
    /\ t \in terminations
    /\ t.closing = 0
    /\ t \notin terminations'
    /\ managerScope' = managerScope
    /\ t.address \notin DOMAIN entities

\* C19: terminateEntity(address) for an address with no entry in the entities
\* map completes without error and leaves the entities map, every entity
\* scope, every mailbox and lastActiveTimes unchanged.
C19_TerminateAbsentChangesNothing ==
    [][\A t \in terminations :
          TerminatesAbsent(t)
            => UNCHANGED <<entities, instances, lastActiveTimes, storage, sends, replies>>]_vars

\* C19 witness: the only entity replied, its expiration fiber forked
\* terminateEntity, its behaviour ended and removed the address, and the
\* forked terminateEntity has run since.
C19_Witness ==
    /\ managerScope = "open"
    /\ terminations = {}
    /\ entities = EmptyMap
    /\ lastActiveTimes # EmptyMap
    /\ Len(instances) = 1
    /\ instances[1].expiration = "done"
    /\ instances[1].closedBy = "behaviour"

InstanceIds == 1 .. MaxInstances

\* instance k is the state the entities map holds under its address
InMap(k) ==
    /\ k \in DOMAIN instances
    /\ instances[k].address \in DOMAIN entities
    /\ entities[instances[k].address] = k

\* the first sleep of the expiration fiber of instance k would be over, and
\* nothing was completed at its address for maxIdleTime
IdleFor(k) ==
    /\ InMap(k)
    /\ now >= instances[k].wakeAt
    /\ remaining(lastActiveTimes, instances[k].address, now) <= 0

\* an entity was terminated by its expiration fiber
Expired == \E k \in DOMAIN instances : instances[k].closedBy = "terminateEntity"

\* a send resolves an address whose entity expired, and a state is created
CreatesAfterExpiry(s) ==
    /\ Expired
    /\ ~isShutdown
    /\ sends[s].pc \in {"resolve", "delay"}
    /\ sends'[s].pc = "offer"
    /\ Len(instances') = Len(instances) + 1

\* the state created in this step is a fresh entity: an open scope, an empty
\* mailbox open for offers, a behaviour that took nothing, an expiration
\* fiber asleep
FreshEntity(s) ==
    LET k == Len(instances')
    IN  /\ sends'[s].state = k
        /\ instances'[k].scope = "open"
        /\ ~instances'[k].shutdown
        /\ instances'[k].mailbox = <<>>
        /\ instances'[k].taken = <<>>
        /\ instances'[k].expiration = "sleeping"
        /\ entities'[instances'[k].address] = k

\* C20: an entity whose behaviour processes no message for maxIdleTime is
\* eventually terminated, its scope closed and its address removed from the
\* entities map; a message sent to that address afterwards creates a fresh
\* entity (new scope, new mailbox, new behaviour) instead of failing.
C20_IdleEntityExpires ==
    /\ \A k \in InstanceIds : IdleFor(k) ~> (~InMap(k) \/ ~IdleFor(k))
    /\ [][\A s \in SendIds : CreatesAfterExpiry(s) => FreshEntity(s)]_vars

\* the behaviour of instance k completed a message it took: the record of
\* the entry is Processed
ProcessedBy(k) ==
    \E i \in DOMAIN instances[k].taken :
        \E j \in RecordsOf(instances[k].taken[i]) : storage[j].state = "Processed"

\* C21: with maxIdleTime = 0 an entity is terminated immediately after its
\* first message has been processed, and not before that message has been
\* processed.
C21_ZeroIdleTerminatesAfterFirstMessage ==
    /\ [](\A k \in DOMAIN instances :
            instances[k].closedBy = "terminateEntity" => ProcessedBy(k))
    /\ \A k \in InstanceIds :
            (k \in DOMAIN instances /\ ProcessedBy(k))
                ~> (k \in DOMAIN instances /\ instances[k].scope = "closed")

\* C22: whenever the pod's shutdown (unregister, the release of
\* registerScoped) completes, isShutdown is true and the scope of every
\* registered entity manager is closed, and the shutdown did not fail; also
\* when the ShardManager is unavailable.
C22_ShutdownClosesEveryManager ==
    [][(unreg.pc # "done" /\ unreg'.pc = "done") =>
          /\ isShutdown'
          /\ \A m \in RegisteredManagers' : managers'[m].scope = "closed"]_vars

(***************************************************************************)
(* The ShardManager (control plane): the registered pods, the assignment   *)
(* map and the rebalance pass.  Its operations run one at a time.          *)
(***************************************************************************)
ManagerPods == {[host |-> "A", port |-> 8079 + i] : i \in 1 .. MaxPods}
ManagerShardIds == 0 .. (ManagerShards - 1)
RebalanceRates == {<<1, 4>>, <<1, 2>>, <<1, 1>>}

\* the order of PodAddress: by host, then by port (one host here)
PodLess(p, q) == p.port < q.port

\* ceil(rebalanceRate * numberOfShards)
MovesPerPass(rate) == ((rate[1] * ManagerShards) + (rate[2] - 1)) \div rate[2]

\* the shards a pod holds, and how many
ShardsOf(assignments, pod) == {sh \in DOMAIN assignments : assignments[sh] = Some(pod)}
ShardCount(assignments, pod) == Cardinality(ShardsOf(assignments, pod))
Unassigned(assignments) == {sh \in DOMAIN assignments : assignments[sh] = None}

\* step 1: the target of a pod is floor(numberOfShards / |pods|), and the
\* remainder goes, one shard each, to the first pods in PodAddress order
TargetCount(pods, pod) ==
    LET rank == Cardinality({q \in pods : PodLess(q, pod)})
    IN  (ManagerShards \div Cardinality(pods))
          + (IF rank < ManagerShards % Cardinality(pods) THEN 1 ELSE 0)

\* step 2: the pods above their target
Overloaded(pods, assignments) ==
    {p \in pods : ShardCount(assignments, p) > TargetCount(pods, p)}

SmallestShard(shards) == CHOOSE sh \in shards : \A other \in shards : sh <= other
FirstPod(pods) == CHOOSE p \in pods : \A q \in pods \ {p} : PodLess(p, q)

\* a bug the plan could have: the destination is the first pod, whatever
\* its load
leastLoadedIsFirst(pods, assignments) == FirstPod(pods)

\* the least-loaded pod, ties broken by PodAddress order
LeastLoaded(pods, assignments) ==
    CHOOSE p \in pods :
        \A q \in pods \ {p} :
            \/ ShardCount(assignments, p) < ShardCount(assignments, q)
            \/ /\ ShardCount(assignments, p) = ShardCount(assignments, q)
               /\ PodLess(p, q)


Move(shard, from, to) == [shard |-> shard, from |-> from, to |-> to]

\* step 3, one move: a released shard first, else the smallest shard of the
\* first overloaded pod; the destination is the least-loaded pod
NextMoves(pods, assignments) ==
    IF pods = {} THEN <<>>
    ELSE IF Unassigned(assignments) # {}
    THEN <<Move(SmallestShard(Unassigned(assignments)), None,
                LeastLoaded(pods, assignments))>>
    ELSE IF Overloaded(pods, assignments) # {}
    THEN LET source == FirstPod(Overloaded(pods, assignments))
         IN  <<Move(SmallestShard(ShardsOf(assignments, source)), Some(source),
                    LeastLoaded(pods, assignments))>>
    ELSE <<>>

\* the maps a plan can start from
AssignmentMaps == [ManagerShardIds -> {None} \cup {Some(p) : p \in ManagerPods}]

\* a bug the plan could have: the bound of step 4 is not applied
movementPlanUnbounded(pods, assignments, limit) ==
    LET plan[map \in AssignmentMaps, left \in 0 .. (2 * ManagerShards)] ==
            LET next == NextMoves(pods, map)
            IN  IF left = 0 \/ next = <<>> THEN <<>>
                ELSE next \o plan[[map EXCEPT ![next[1].shard] = Some(next[1].to)],
                                  left - 1]
    IN  plan[assignments, 2 * ManagerShards]

\* steps 3 and 4: the movement plan, each move planned on the map as the
\* moves before it leave it, cut at limit moves
movementPlan(pods, assignments, limit) ==
    LET plan[map \in AssignmentMaps, left \in 0 .. limit] ==
            LET next == NextMoves(pods, map)
            IN  IF left = 0 \/ next = <<>> THEN <<>>
                ELSE next \o plan[[map EXCEPT ![next[1].shard] = Some(next[1].to)],
                                  left - 1]
    IN  plan[assignments, limit]

\* a bug unregister could have: the shards of the pod stay assigned to it
releaseNoShards(assignments, pod) == assignments

\* unregister: the shards of the pod are released
releaseShards(assignments, pod) ==
    [sh \in DOMAIN assignments |->
        IF assignments[sh] = Some(pod) THEN None ELSE assignments[sh]]

\* a bug the pass could have: the shard is given to the destination first and
\* the source is told afterwards
stepAfterAssignFirst(pc, move) ==
    CASE pc = "start" -> (IF move.from = None THEN "assign" ELSE "unassign")
      [] pc = "unassign" -> "assign"
      [] pc = "assign" -> (IF move.from = None THEN "publishAssigned" ELSE "publishUnassigned")
      [] pc = "publishUnassigned" -> "terminate"
      [] pc = "terminate" -> "publishAssigned"
      [] OTHER -> "next"

\* step 5, the order in which one move is applied: None, ShardsUnassigned,
\* the terminate instruction to the source, the destination, ShardsAssigned;
\* a released shard has no source and starts at the destination
stepAfter(pc, move) ==
    CASE pc = "start" -> (IF move.from = None THEN "assign" ELSE "unassign")
      [] pc = "unassign" -> "publishUnassigned"
      [] pc = "publishUnassigned" -> "terminate"
      [] pc = "terminate" -> "assign"
      [] pc = "assign" -> "publishAssigned"
      [] OTHER -> "next"

LogEntry(kind, shard, pod, ok) == [kind |-> kind, shard |-> shard, pod |-> pod, ok |-> ok]

\* rebalance(immediate): the plan is computed from the pods and the map as
\* they are, and its first move is taken up; log holds what was published
\* and done so far
StartPass(pods, assignments, rate, immediate, log) ==
    LET plan == movementPlan(pods, assignments, MovesPerPass(rate))
    IN  [active |-> TRUE, immediate |-> immediate, before |-> assignments,
         plan |-> plan, move |-> 1,
         pc |-> IF plan = <<>> THEN "done" ELSE stepAfter("start", plan[1]),
         log |-> log]

\* the pass after a step of its current move: the next step of the move, or
\* the first step of the next move, or the end of the plan
Advance(pass, entry) ==
    LET after == stepAfter(pass.pc, pass.plan[pass.move])
        log == Append(pass.log, entry)
    IN  IF after # "next" THEN [pass EXCEPT !.pc = after, !.log = log]
        ELSE IF pass.move = Len(pass.plan)
        THEN [pass EXCEPT !.pc = "done", !.log = log]
        ELSE [pass EXCEPT !.move = @ + 1, !.log = log,
                          !.pc = stepAfter("start", pass.plan[pass.move + 1])]

CurrentMove == smPass.plan[smPass.move]

\* register(pod): the pod joins the set; the rebalance it triggers is not
\* immediate, it is the next pass
ShardManagerRegister(pod) ==
    /\ ~smPass.active
    /\ pod \notin smPods
    /\ smPods' = smPods \cup {pod}
    /\ UNCHANGED <<hashVars, maxIdleTime, unreg, podVars, emVars, smAssignments, smRate, smPass>>

\* unregister(address): the pod leaves the set, its shards are released,
\* PodUnregistered is published, and a rebalance pass starts at once
\* (immediate = true)
ShardManagerUnregister(pod) ==
    /\ ~smPass.active
    /\ pod \in smPods
    /\ smPods' = smPods \ {pod}
    /\ smAssignments' = releaseShards(smAssignments, pod)
    /\ smPass' = StartPass(smPods', smAssignments', smRate, TRUE,
                            <<LogEntry("PodUnregistered", ShardsOf(smAssignments, pod),
                                       Some(pod), TRUE)>>)
    /\ UNCHANGED <<hashVars, maxIdleTime, unreg, podVars, emVars, smRate>>

\* rebalance, on the rebalanceInterval tick
Rebalance ==
    /\ ~smPass.active
    /\ smPass' = StartPass(smPods, smAssignments, smRate, FALSE, <<>>)
    /\ UNCHANGED <<hashVars, maxIdleTime, unreg, podVars, emVars, smPods, smAssignments, smRate>>

\* step 5: the shard is marked unassigned
MarkUnassigned ==
    /\ smPass.active /\ smPass.pc = "unassign"
    /\ smAssignments' = [smAssignments EXCEPT ![CurrentMove.shard] = None]
    /\ smPass' = Advance(smPass, LogEntry("None", CurrentMove.shard, CurrentMove.from, TRUE))
    /\ UNCHANGED <<hashVars, maxIdleTime, unreg, podVars, emVars, smPods, smRate>>

\* step 5: ShardsUnassigned(source, {shard}) is published
PublishUnassigned ==
    /\ smPass.active /\ smPass.pc = "publishUnassigned"
    /\ smPass' = Advance(smPass, LogEntry("ShardsUnassigned", CurrentMove.shard,
                                          CurrentMove.from, TRUE))
    /\ UNCHANGED <<hashVars, maxIdleTime, unreg, podVars, emVars, smPods, smAssignments, smRate>>

\* step 5: the source pod is told, via Pods, to terminate its entities on the
\* shard; the instruction can fail, and the pass goes on all the same
InstructTerminate ==
    \E ok \in BOOLEAN :
        /\ smPass.active /\ smPass.pc = "terminate"
        /\ smPass' = Advance(smPass, LogEntry("terminate", CurrentMove.shard,
                                              CurrentMove.from, ok))
        /\ UNCHANGED <<hashVars, maxIdleTime, unreg, podVars, emVars, smPods, smAssignments, smRate>>

\* step 5: the shard is set to the destination
AssignDestination ==
    /\ smPass.active /\ smPass.pc = "assign"
    /\ smAssignments' = [smAssignments EXCEPT ![CurrentMove.shard] = Some(CurrentMove.to)]
    /\ smPass' = Advance(smPass, LogEntry("Some", CurrentMove.shard,
                                          Some(CurrentMove.to), TRUE))
    /\ UNCHANGED <<hashVars, maxIdleTime, unreg, podVars, emVars, smPods, smRate>>

\* step 5: ShardsAssigned(destination, {shard}) is published
PublishAssigned ==
    /\ smPass.active /\ smPass.pc = "publishAssigned"
    /\ smPass' = Advance(smPass, LogEntry("ShardsAssigned", CurrentMove.shard,
                                          Some(CurrentMove.to), TRUE))
    /\ UNCHANGED <<hashVars, maxIdleTime, unreg, podVars, emVars, smPods, smAssignments, smRate>>

\* the pass is over
PassDone ==
    /\ smPass.active /\ smPass.pc = "done"
    /\ smPass' = NoPass
    /\ UNCHANGED <<hashVars, maxIdleTime, unreg, podVars, emVars, smPods, smAssignments, smRate>>

\* a ShardManager is started: no pod, every shard unassigned, a rebalanceRate
InitSM ==
    /\ HashIdle
    /\ PodInit
    /\ clientKind = "remote"
    /\ ManagerInit
    /\ maxIdleTime = MaxIdleTime
    /\ smPods = {}
    /\ smAssignments = [sh \in ManagerShardIds |-> None]
    /\ smRate \in RebalanceRates
    /\ smPass = NoPass

NextSM ==
    \/ \E pod \in ManagerPods : ShardManagerRegister(pod)
    \/ \E pod \in ManagerPods : ShardManagerUnregister(pod)
    \/ Rebalance
    \/ MarkUnassigned
    \/ PublishUnassigned
    \/ InstructTerminate
    \/ AssignDestination
    \/ PublishAssigned
    \/ PassDone

SpecSM == InitSM /\ [][NextSM]_vars

\* the rebalanceInterval tick comes again and again, and a pass under way
\* takes its steps
SpecSMFair ==
    /\ SpecSM
    /\ WF_vars(Rebalance)
    /\ WF_vars(MarkUnassigned \/ PublishUnassigned \/ InstructTerminate
                 \/ AssignDestination \/ PublishAssigned \/ PassDone)

\* C23: after ShardManager.unregister(p) completes, p is not in the
\* registered pod set and no shard is assigned to p; at every quiescent state
\* every shard assigned Some(q) has q in the registered pod set.
C23_UnregisteredPodOwnsNothing ==
    /\ [][\A p \in ManagerPods :
            (p \in smPods /\ p \notin smPods') => ShardsOf(smAssignments', p) = {}]_vars
    /\ [](\A p \in ManagerPods :
            (~smPass.active /\ ShardsOf(smAssignments, p) # {}) => p \in smPods)

\* C23 witness: a pod that held shards was unregistered, another pod is still
\* registered, and the pass unregister started is under way.
C23_Witness ==
    /\ smPass.active
    /\ smPass.immediate
    /\ smPass.log[1].kind = "PodUnregistered"
    /\ smPass.log[1].shard # {}
    /\ smPods # {}

\* the shards whose owner is not the one they had when the pass started
ChangedByPass == {sh \in DOMAIN smPass.before : smAssignments[sh] # smPass.before[sh]}

\* C24: a single rebalance pass changes the owner of at most
\* ceil(rebalanceRate * numberOfShards) shards; what imbalance is left is for a
\* later pass.
C24_PassMovesAtMostRateShards ==
    smPass.active =>
        /\ Cardinality(ChangedByPass) <= MovesPerPass(smRate)
        /\ Len(smPass.plan) <= MovesPerPass(smRate)

\* C24 witness: a pass at a rate below 1 has applied its whole plan, as many
\* moves as the bound allows, and shards are still out of place.
C24_Witness ==
    /\ smPass.active
    /\ smPass.pc = "done"
    /\ smRate # <<1, 1>>
    /\ Cardinality(ChangedByPass) = MovesPerPass(smRate)
    /\ NextMoves(smPods, smAssignments) # <<>>

\* where in the log of the pass an entry of this kind for this shard stands
Positions(kind, shard) ==
    {i \in DOMAIN smPass.log : smPass.log[i].kind = kind /\ smPass.log[i].shard = shard}

\* every entry of the second kind for the shard comes after one of the first
Precedes(first, second, shard) ==
    \A j \in Positions(second, shard) : \E i \in Positions(first, shard) : i < j

\* C25: for every shard a rebalance moves from pod A to pod B: the shard is set
\* to None, ShardsUnassigned(A) is published, A is told to terminate its
\* entities on the shard, the shard is set to Some(B), ShardsAssigned(B) is
\* published, in this order; the shard is not assigned to B before it was
\* unassigned from A, and a failed terminate instruction does not give the
\* shard back to A.
C25_MoveStepsInOrder ==
    smPass.active =>
        \A sh \in DOMAIN smPass.before :
            smPass.before[sh] # None =>
                /\ Precedes("None", "ShardsUnassigned", sh)
                /\ Precedes("ShardsUnassigned", "terminate", sh)
                /\ Precedes("terminate", "Some", sh)
                /\ Precedes("Some", "ShardsAssigned", sh)
                /\ \A i \in Positions("ShardsUnassigned", sh) \cup Positions("terminate", sh) :
                      smPass.log[i].pod = smPass.before[sh]
                /\ \A i \in Positions("ShardsAssigned", sh) :
                      smPass.log[i].pod = smAssignments[sh]
                /\ smAssignments[sh] \notin {None, smPass.before[sh]}
                      => /\ Positions("None", sh) # {}
                         /\ Positions("terminate", sh) # {}
                /\ (\E i \in Positions("terminate", sh) : ~smPass.log[i].ok)
                      => smAssignments[sh] # smPass.before[sh]

\* C25 witness: a pass has moved a shard from one pod to another although
\* the terminate instruction to the source failed.
C25_Witness ==
    /\ smPass.active
    /\ smPass.pc = "done"
    /\ \E sh \in DOMAIN smPass.before :
          /\ smPass.before[sh] # None
          /\ smAssignments[sh] \notin {None, smPass.before[sh]}
          /\ Positions("ShardsAssigned", sh) # {}
          /\ \E i \in Positions("terminate", sh) : ~smPass.log[i].ok

\* every shard has a registered owner and no two pods differ by more than
\* one shard
Balanced ==
    /\ \A sh \in DOMAIN smAssignments :
          smAssignments[sh] # None /\ smAssignments[sh].value \in smPods
    /\ \A p, q \in smPods :
          ShardCount(smAssignments, p) - ShardCount(smAssignments, q) <= 1

\* a pass that started now would move nothing
Settled == movementPlan(smPods, smAssignments, MovesPerPass(smRate)) = <<>>

\* C26: if the set of registered pods is non-empty and stops changing, then
\* after finitely many rebalance passes every shard is assigned to a
\* registered pod and the shard counts of any two pods differ by at most 1,
\* and from then on a rebalance pass moves no shard.
C26_StablePodsGetBalanced ==
    /\ ((<>[](smPods # {})) /\ (<>[][smPods' = smPods]_smPods))
          => <>[](Balanced /\ Settled)
    /\ [][(Balanced /\ Settled /\ smPods' = smPods)
            => (Balanced' /\ Settled' /\ smAssignments' = smAssignments)]_vars

\* C26 witness: every pod is registered, the shards are balanced over them,
\* and a pass has found nothing to move.
C26_Witness ==
    /\ smPods = ManagerPods
    /\ Balanced
    /\ Settled
    /\ smPass.active
    /\ smPass.plan = <<>>

\* the shard an address carries is the shard of its entity id
OnItsShard(address) == address.shardId = podShardId(address.entityId)

\* C27: every key of the entities map and every address a message is saved
\* under carries shardId = getShardId(entityId), and an envelope whose address
\* carries another shardId is never accepted: it is not saved, it creates no
\* entity and its send does not succeed.
C27_AddressesCarryTheirShard ==
    /\ \A address \in DOMAIN entities : OnItsShard(address)
    /\ \A i \in DOMAIN storage :
          storage[i].entry.shardId = podShardId(storage[i].entry.entityId)
    /\ \A s \in SendIds :
          (sends[s].envelope # None /\ ~OnItsShard(sends[s].envelope.value.address))
              => sends[s].result \in {None, Some(MalformedMessage),
                                      Some(EntityNotManagedByPod)}

\* C28: for every message the successful saveMessage precedes the offer of
\* its entry: no entry is in a mailbox (or was taken from one) without a record
\* in the storage that carries the same entry, sequence number included, and
\* the record is there before the step that offers the entry.
C28_SavePrecedesOffer ==
    /\ [](\A k \in DOMAIN instances :
            \A i \in DOMAIN Offered(k) : RecordsOf(Offered(k)[i]) # {})
    /\ [][\A k \in DOMAIN instances :
            Len(Offered(k)') > Len(Offered(k))
                => RecordsOf(Offered(k)'[Len(Offered(k)')]) # {}]_vars

\* C28 witness: an entry waits in a mailbox, its record is Pending in the
\* storage, and a send whose saveMessage failed has offered nothing.
C28_Witness ==
    /\ \E k \in DOMAIN instances :
          /\ instances[k].mailbox # <<>>
          /\ \E j \in RecordsOf(instances[k].mailbox[1]) : storage[j].state = "Pending"
    /\ \E s \in SendIds :
          /\ sends[s].save = Some("MessagePersistenceError")
          /\ sends[s].pc = "done"

\* the steps taken inside semaphore.withPermits(1): getOrCreateState and
\* terminateEntity
WithPermits ==
    \/ \E s \in SendIds : GetOrCreateState(s)
    \/ \E t \in terminations : TerminateEntity(t)

\* C29: every change of the entities map, the insertion by get-or-create and
\* the removals by terminateEntity, by the behaviour exiting and by the close
\* of the manager scope, is made by a step that holds the 1-permit semaphore
\* of the manager.
C29_MapChangesUnderSemaphore == [][entities' # entities => WithPermits]_vars

\* the storage holds a Processed record of a message of the address
ProcessedFor(address) ==
    \E j \in DOMAIN storage :
        /\ storage[j].entry.entityType = address.entityType
        /\ storage[j].entry.entityId = address.entityId
        /\ storage[j].state = "Processed"

\* C30: in every Replier call updateMessage writes the Processed state before
\* lastActiveTimes[address] is set: a call that is under way has its
\* Processed record in the storage, and lastActiveTimes changes only by the
\* last step of such a call, to the time that call read.
C30_UpdatePrecedesLastActive ==
    /\ [](\A r \in replies : ProcessedFor(r.address))
    /\ [][lastActiveTimes' # lastActiveTimes =>
            \E r \in replies :
                /\ ProcessedFor(r.address)
                /\ r.now # None
                /\ replies' = replies \ {r}
                /\ lastActiveTimes' = HashMapSet(lastActiveTimes, r.address, r.now.value)]_vars

\* C30 witness: the record of a message is Processed, its Replier call is
\* about to set the time, and lastActiveTimes has no time for the address yet.
C30_Witness ==
    \E r \in replies :
        /\ ProcessedFor(r.address)
        /\ r.address \notin DOMAIN lastActiveTimes

\* a Replier call for the address sets the last active time in this step
ReplierEnds(address) == \E r \in replies : r.address = address /\ r \notin replies'

\* C31: EntityManager.send and the mailbox offer leave lastActiveTimes as it
\* is, and lastActiveTimes[address] changes only by the last step of a Replier
\* call for that address.
C31_LastActiveSetByReplierOnly ==
    [][/\ (\E s \in SendIds : SendStep(s)) => UNCHANGED lastActiveTimes
       /\ \A address \in (DOMAIN lastActiveTimes) \cup (DOMAIN lastActiveTimes') :
             HashMapGet(lastActiveTimes', address) # HashMapGet(lastActiveTimes, address)
                 => ReplierEnds(address)]_vars

\* C31 witness: a message was processed at an earlier instant, and a later
\* send has offered its entry to the mailbox of the entity: the last active
\* time is still the one of the reply.
C31_Witness ==
    \E k \in DOMAIN instances :
        /\ instances[k].mailbox # <<>>
        /\ instances[k].address \in DOMAIN lastActiveTimes
        /\ lastActiveTimes[instances[k].address] < now
        /\ \E s \in SendIds : sends[s].pc = "done" /\ sends[s].result = Some(Ok)
                                /\ sends[s].entry = Some(instances[k].mailbox[1])

\* this step is the expiration-triggered terminateEntity closing instance k
ClosedByExpiration(k) ==
    /\ instances[k].scope = "open"
    /\ instances'[k].scope = "closed"
    /\ instances'[k].closedBy = "terminateEntity"

\* C32: idle expiration never closes an entity that was active recently: when
\* the terminateEntity forked by the expiration task closes the scope of an
\* entity, at least maxIdleTime has elapsed since lastActiveTimes[address]
\* (0 when the address has no entry).
C32_ExpirationClosesIdleOnly ==
    [][\A k \in DOMAIN instances :
          ClosedByExpiration(k)
              => remaining(lastActiveTimes, instances[k].address, now) <= 0]_vars

\* in the release log of instance k, every release of the first kind comes
\* before every release of the second
ReleasedBefore(k, first, second) ==
    \A i, j \in DOMAIN instances[k].released :
        (instances[k].released[i] = first /\ instances[k].released[j] = second) => i < j

Released(k, name) ==
    \E i \in DOMAIN instances[k].released : instances[k].released[i] = name

\* C33 as stated: when an entity scope is closed the mailbox is shut down,
\* then the expiration task is stopped, then the behaviour task is stopped,
\* then the gauge is decremented.
C33_ReleaseOrderAsStated ==
    \A k \in DOMAIN instances :
        instances[k].scope = "closed" =>
            /\ ReleasedBefore(k, "mailbox", "expiration")
            /\ ReleasedBefore(k, "expiration", "behaviour")
            /\ ReleasedBefore(k, "behaviour", "gauge")

\* C33 amended: when the scope of a created entity is closed, what it still
\* holds is released last acquired, first released: the entity leaves the
\* entities map, the gauge is decremented, the behaviour task (unless it has
\* ended by itself) is interrupted, the mailbox is shut down, the expiration
\* task (unless it has ended by itself) is interrupted. While the close waits
\* for the behaviour task, and when it is interrupted in that wait, only the
\* first two are done.
C33_ReleaseOrderIsReverseOfAcquisition ==
    \A k \in DOMAIN instances :
        (instances[k].scope = "closed" /\ instances[k].closedBy # "creation") =>
            /\ instances[k].released[1] = "entities"
            /\ instances[k].released[2] = "gauge"
            /\ ReleasedBefore(k, "gauge", "behaviour")
            /\ ReleasedBefore(k, "behaviour", "mailbox")
            /\ ReleasedBefore(k, "mailbox", "expiration")
            /\ ~instances[k].shutdown => instances[k].released = <<"entities", "gauge">>
            /\ instances[k].shutdown =>
                  /\ Released(k, "mailbox")
                  /\ instances[k].closedBy # "behaviour" => Released(k, "behaviour")
                  /\ instances[k].expiration = "interrupted" => Released(k, "expiration")

\* C33 witness: the close of the manager scope has closed an entity whose
\* behaviour and expiration task were both running: all five releases are in
\* its log.
C33_Witness ==
    \E k \in DOMAIN instances :
        /\ instances[k].closedBy = "unregister"
        /\ Released(k, "behaviour")
        /\ Released(k, "expiration")
        /\ Len(instances[k].released) = 5

(***************************************************************************)
(* Pod shutdown among register and registerEntity calls for two types.     *)
(***************************************************************************)
\* the entity types registered in the pod that shuts down
ShutdownTypes == {"Counter", "Timer"}

\* registerEntity of one of the types of the pod
RegisterEntityTypes == RegisterEntityOf(ShutdownTypes, MaxShutdownManagers)

NextShutdown ==
    \/ Register
    \/ RegisterEntityTypes
    \/ Return
    \/ UnregisterStart
    \/ UnregisterSetShutdown
    \/ UnregisterClose
    \/ UnregisterCall

SpecShutdown == Init /\ [][NextShutdown]_vars

\* where in the log of the unregister a step stands
ShutdownSteps(step) == {i \in DOMAIN unreg.log : unreg.log[i].step = step}
CloseSteps(m) == {i \in ShutdownSteps("close") : unreg.log[i].manager = m}

\* C34: during pod shutdown isShutdown is set before any manager scope is
\* closed, the manager scopes are closed one after another, and
\* shardManager.unregister is called only after every manager scope has been
\* closed; an error while one scope is closed prevents neither the closing of
\* the others nor the unregister call.
C34_ShutdownOrder ==
    /\ [](\A i \in ShutdownSteps("close") :
            \E j \in ShutdownSteps("isShutdown") : j < i)
    /\ [][Cardinality({m \in DOMAIN managers :
                          managers[m].scope = "open" /\ managers'[m].scope = "closed"}) <= 1]_vars
    /\ [][(unreg.pc = "unregister" /\ unreg'.pc = "done") =>
              \A m \in DOMAIN managers : managers[m].scope = "closed"]_vars
    /\ []((unreg.pc = "done" /\ unreg.log[1].ok) =>
            /\ ShutdownSteps("unregister") # {}
            /\ \A m \in unreg.found : CloseSteps(m) # {})

(***************************************************************************)
(* The entity manager with getOrCreateState followed step by step inside   *)
(* its semaphore: the lookup and the read of isShutdown, the fork of the    *)
(* entity scope with everything started in it, the insert into the map.     *)
(* What does not take the semaphore (the behaviour, the close of the        *)
(* manager scope, the Replier, the expiration fiber) runs in between.       *)
(* The envelopes sent decode and are saved: the sends that end before       *)
(* getOrCreateState are left to the specification above.                    *)
(***************************************************************************)
\* a bug the manager could have: getOrCreateState and terminateEntity do not
\* wait for the permit
SemaphoreIgnored == TRUE

\* semaphore.withPermits(1): the one permit is free when no getOrCreateState is
\* between its read of the map and its insert
SemaphoreFree ==
    /\ PermitFree
    /\ \A s \in SendIds : sends[s].pc \notin {"fork", "insert"}

\* getOrCreateState takes the permit: Ref.get(entities), HashMap.get(address);
\* when absent, sharding.isShutdown is read
GetOrCreateCheck(s) ==
    LET address == sends[s].envelope.value.address
    IN  /\ sends[s].pc \in {"resolve", "delay"}
        /\ SemaphoreFree
        /\ address \in DOMAIN entities \/ isShutdown \/ Len(instances) < MaxFineInstances
        /\ sends' = IF address \in DOMAIN entities
                    THEN [sends EXCEPT ![s].pc = "offer", ![s].state = entities[address]]
                    ELSE IF isShutdown
                    THEN [sends EXCEPT ![s].pc = "done",
                                       ![s].result = Some(EntityNotManagedByPod)]
                    ELSE [sends EXCEPT ![s].pc = "fork"]
        /\ UNCHANGED <<hashVars, maxIdleTime, unreg, smVars, podVars, managerScope, entities,
                       instances, lastActiveTimes, replies, terminations>>

\* Scope.fork(managerScope), startExpirationFiber, the mailbox, the behaviour
\* forked in the scope, the gauge, the finalizer that removes the address
GetOrCreateFork(s) ==
    /\ sends[s].pc = "fork"
    /\ instances' = Append(instances,
                           NewEntityState(sends[s].envelope.value.address,
                                          managerScope = "open", now))
    /\ sends' = [sends EXCEPT ![s].pc = "insert", ![s].state = Len(instances) + 1]
    /\ UNCHANGED <<hashVars, maxIdleTime, unreg, smVars, podVars, managerScope, entities,
                   lastActiveTimes, replies, terminations>>

\* Ref.update(entities, HashMap.set(address, state)); the permit is given back
GetOrCreateInsert(s) ==
    /\ sends[s].pc = "insert"
    /\ entities' = HashMapSet(entities, sends[s].envelope.value.address, sends[s].state)
    /\ sends' = [sends EXCEPT ![s].pc = "offer"]
    /\ UNCHANGED <<hashVars, maxIdleTime, unreg, smVars, podVars, managerScope, instances,
                   lastActiveTimes, replies, terminations>>

\* a forked terminateEntity(address) gets the permit and runs
TerminateEntityWithPermit(t) == SemaphoreFree /\ TerminateEntity(t)

NextEMFine ==
    \/ \E s \in SendIds : SendSaved(s)
    \/ \E s \in SendIds : GetOrCreateCheck(s)
    \/ \E s \in SendIds : GetOrCreateFork(s)
    \/ \E s \in SendIds : GetOrCreateInsert(s)
    \/ \E s \in SendIds : MailboxOffer(s)
    \/ \E k \in DOMAIN instances : BehaviorTake(k)
    \/ \E k \in DOMAIN instances : BehaviorExit(k)
    \/ \E k \in DOMAIN instances : ReplierComplete(k)
    \/ \E r \in replies : ReplierReadClock(r)
    \/ \E r \in replies : ReplierSetLastActive(r)
    \/ \E k \in DOMAIN instances : ExpirationWake(k)
    \/ \E t \in terminations : TerminateEntityWithPermit(t)
    \/ \E k \in DOMAIN instances : CloseEntityEnd(k)
    \/ ManagerShutdown
    \/ ManagerScopeClose
    \/ ManagerRunFinalizer
    \/ ManagerRegister
    \/ ClockTick

SpecEMFine == InitEM /\ [][NextEMFine]_vars

\* the instances of an address whose behaviour fiber has not ended: the
\* behaviour is forked in the entity scope, and the close of the scope by
\* another fiber waits for its end
Running(address) ==
    {k \in DOMAIN instances :
        /\ instances[k].address = address
        /\ instances[k].scope = "open" \/ Closing(k)}

\* C35: within one entity manager at most one behaviour runs for an address,
\* whatever the interleaving of sends, terminateEntity calls, expirations and
\* behaviour exits
C35_OneBehaviourPerAddress ==
    \A address \in EmAddresses : Cardinality(Running(address)) <= 1

\* an address has had an instance that ended and has a second one running
C35_Witness ==
    \E k \in DOMAIN instances : \E j \in DOMAIN instances :
        /\ j < k
        /\ instances[j].address = instances[k].address
        /\ instances[j].scope = "closed"
        /\ instances[j].closedBy \in {"behaviour", "terminateEntity"}
        /\ instances[k].scope = "open"

\* C36: whenever no getOrCreateState is in progress, every entry of the
\* entities map is an entity whose scope is open and whose mailbox is not shut
\* down; an entity that ended while it was created is not left in the map
C36_MapEntriesAreLive ==
    (\A s \in SendIds : sends[s].pc \notin {"fork", "insert"}) =>
        \A address \in DOMAIN entities :
            /\ instances[entities[address]].scope = "open"
            /\ ~instances[entities[address]].shutdown

\* the shutdown has completed, the close of the manager scope with the close
\* of every entity scope and the interruption of every terminateEntity fiber
\* included, and register has not been called since
ShutdownCompleted ==
    /\ isShutdown
    /\ unreg.pc = "idle"
    /\ managerScope = "closed"
    /\ terminations = {}
    /\ \A k \in DOMAIN instances : instances[k].scope = "closed" /\ ~Closing(k)

\* C37: after the shutdown has completed the entities map is empty, no
\* behaviour and no expiration fiber runs, and no entity is created until
\* register is called again, also when a send read isShutdown = false just
\* before the shutdown
C37_NothingLeftAfterShutdown ==
    /\ [](ShutdownCompleted =>
            /\ entities = EmptyMap
            /\ \A k \in DOMAIN instances :
                   instances[k].shutdown /\ instances[k].expiration # "sleeping")
    /\ [][(ShutdownCompleted /\ ShutdownCompleted') => Len(instances') = Len(instances)]_vars

\* this step is a terminateEntity closing the scope of instance k
ClosedByTerminateEntity(k) ==
    /\ instances[k].scope = "open"
    /\ instances'[k].scope = "closed"
    /\ instances'[k].closedBy = "terminateEntity"

\* C38: a terminateEntity forked by the expiration fiber of one instance closes
\* that instance only, never a later instance created at the same address
C38_TerminationClosesItsOwnInstance ==
    [][\A k \in DOMAIN instances :
           ClosedByTerminateEntity(k) =>
               \A t \in terminations \ terminations' : t.by = k]_vars

\* the send has failed with EntityNotManagedByPod
Rejected(s) == sends[s].pc = "done" /\ sends[s].result = Some(EntityNotManagedByPod)

\* C39: a send that fails with EntityNotManagedByPod leaves the MailboxStorage
\* as it was: no record of the rejected message has been saved
C39_RejectedSendSavesNothing ==
    \A s \in SendIds :
        Rejected(s) => (sends[s].entry = None \/ RecordsOf(sends[s].entry.value) = {})

\* manager m is the one the registry holds under its entity type
Recorded(m) == HashMapGet(entityManagers, EntityType(managers[m].type)) = Some(m)

\* C40: after any registerEntity calls, several for one type included, every
\* manager whose scope is open is the one recorded under its type, so that the
\* shutdown finds every open manager in the registry; every call has published
\* one EntityRegistered event, after the manager was recorded
C40_OpenManagersAreRecorded ==
    /\ [](\A m \in DOMAIN managers : managers[m].scope = "open" => Recorded(m))
    /\ [][(unreg.pc = "setShutdown" /\ unreg'.pc # "setShutdown") =>
              \A m \in DOMAIN managers : managers[m].scope = "open" => m \in unreg'.found]_vars
    /\ [](Len(events) = Len(managers))
    /\ [][Len(events') > Len(events) =>
              /\ Len(events') = Len(events) + 1
              /\ Len(managers') = Len(events')
              /\ HashMapGet(entityManagers', EntityType(events'[Len(events')]))
                     = Some(Len(managers'))]_vars

====
